---- MODULE Spec2Model ----
(***************************************************************************)
(* AI Grammar Enhancer: the five correction stages (phases 6..10) and the  *)
(* orchestrator GrammarPipeline.run that sequences them.                   *)
(*                                                                         *)
(* A text is a sequence of one-character strings, so that strip(), the     *)
(* regular-expression substitutions and the substring tests of the Python  *)
(* source are modelled by what they do to the characters.  Confidences are *)
(* integers in thousandths (0.95 is 950, 1.0 is 1000).                     *)
(***************************************************************************)
EXTENDS Integers, Sequences, FiniteSets, TLC

(***************************************************************************)
(* Characters and the Python string methods the source uses.               *)
(***************************************************************************)
LowerSet == {"a","b","c","d","e","f","g","h","i","j","k","l","m",
             "n","o","p","q","r","s","t","u","v","w","x","y","z"}

UpperSet == {"A","B","C","D","E","F","G","H","I","J","K","L","M",
             "N","O","P","Q","R","S","T","U","V","W","X","Y","Z"}

Whitespace == {" ", "\t", "\n"}

\* Characters matched by the regular-expression class [.,!?;:].
PunctChars == {".", ",", "!", "?", ";", ":"}

\* The lower-case letter of each upper-case letter.
ToLowerMap ==
    [A |-> "a", B |-> "b", C |-> "c", D |-> "d", E |-> "e", F |-> "f", G |-> "g",
     H |-> "h", I |-> "i", J |-> "j", K |-> "k", L |-> "l", M |-> "m", N |-> "n",
     O |-> "o", P |-> "p", Q |-> "q", R |-> "r", S |-> "s", T |-> "t", U |-> "u",
     V |-> "v", W |-> "w", X |-> "x", Y |-> "y", Z |-> "z"]

ToLower(c) == IF c \in UpperSet THEN ToLowerMap[c] ELSE c

ToUpper(c) == IF c \in LowerSet THEN CHOOSE u \in UpperSet : ToLowerMap[u] = c ELSE c

\* \w of the re module, restricted to the characters texts are built from.
IsWordChar(c) == c \in LowerSet \cup UpperSet \cup {"_"}

IsSpace(c) == c \in Whitespace

\* str.lower()
lower(s) == [i \in 1..Len(s) |-> ToLower(s[i])]

\* str.upper()
upper(s) == [i \in 1..Len(s) |-> ToUpper(s[i])]

\* str.capitalize(): first character upper-cased, the rest lower-cased.
capitalize(s) == [i \in 1..Len(s) |-> IF i = 1 THEN ToUpper(s[i]) ELSE ToLower(s[i])]

\* str.isupper(): at least one cased character and no lower-case one.
isupper(s) == /\ \E i \in 1..Len(s) : s[i] \in UpperSet
              /\ \A i \in 1..Len(s) : s[i] \notin LowerSet

\* Number of leading whitespace characters of s.
RECURSIVE LeadingSpaces(_)
LeadingSpaces(s) ==
    IF s = <<>> \/ ~IsSpace(Head(s)) THEN 0 ELSE 1 + LeadingSpaces(Tail(s))

\* Number of trailing whitespace characters of s.
RECURSIVE TrailingSpaces(_)
TrailingSpaces(s) ==
    IF s = <<>> \/ ~IsSpace(s[Len(s)]) THEN 0
    ELSE 1 + TrailingSpaces(SubSeq(s, 1, Len(s) - 1))

\* str.strip()
strip(s) ==
    LET Trim(leading) ==
            IF leading = Len(s) THEN <<>>
            ELSE SubSeq(s, leading + 1, Len(s) - TrailingSpaces(s))
    IN  Trim(LeadingSpaces(s))

\* str.startswith(prefix)
startswith(s, prefix) ==
    /\ Len(prefix) <= Len(s)
    /\ SubSeq(s, 1, Len(prefix)) = prefix

\* str.endswith(suffix)
endswith(s, suffix) ==
    /\ Len(suffix) <= Len(s)
    /\ SubSeq(s, Len(s) - Len(suffix) + 1, Len(s)) = suffix

\* Python's "sub in s".
Contains(s, sub) ==
    \E i \in 0..(Len(s) - Len(sub)) : SubSeq(s, i + 1, i + Len(sub)) = sub

\* any(w in s for w in words)
ContainsAny(s, words) == \E w \in words : Contains(s, w)

\* re.sub(r"\s+", " ", s): every maximal whitespace run becomes one blank.
RECURSIVE CollapseSpaces(_)
CollapseSpaces(s) ==
    IF s = <<>> THEN <<>>
    ELSE IF IsSpace(Head(s))
         THEN <<" ">> \o CollapseSpaces(SubSeq(s, LeadingSpaces(s) + 1, Len(s)))
         ELSE <<Head(s)>> \o CollapseSpaces(Tail(s))

\* utils.preprocess_text
preprocess_text(text) == CollapseSpaces(strip(text))

\* re.sub(r"\s+([.,!?;:])", r"\1", s) with the punctuation class given:
\* a whitespace run directly followed by one of puncts is removed.
RECURSIVE DetachSpaceBefore(_, _)
DetachSpaceBefore(s, puncts) ==
    IF s = <<>> THEN <<>>
    ELSE IF IsSpace(Head(s))
         THEN LET n == LeadingSpaces(s) IN
              IF n < Len(s) /\ s[n + 1] \in puncts
              THEN DetachSpaceBefore(SubSeq(s, n + 1, Len(s)), puncts)
              ELSE SubSeq(s, 1, n) \o DetachSpaceBefore(SubSeq(s, n + 1, Len(s)), puncts)
         ELSE <<Head(s)>> \o DetachSpaceBefore(Tail(s), puncts)

\* re.sub(r"\s{2,}", " ", s): whitespace runs of two or more become one blank;
\* a single whitespace character is kept as it is.
RECURSIVE CollapseMultiSpaces(_)
CollapseMultiSpaces(s) ==
    IF s = <<>> THEN <<>>
    ELSE IF IsSpace(Head(s))
         THEN LET n == LeadingSpaces(s) IN
              (IF n >= 2 THEN <<" ">> ELSE <<Head(s)>>)
                  \o CollapseMultiSpaces(SubSeq(s, n + 1, Len(s)))
         ELSE <<Head(s)>> \o CollapseMultiSpaces(Tail(s))

(***************************************************************************)
(* A text is a sequence of one-character strings: the literal "cat" of the *)
(* source is <<"c", "a", "t">>.                                            *)
(***************************************************************************)

(***************************************************************************)
(* The linguistic annotator (self.nlp).  It is an external collaborator;   *)
(* the stages only rely on the token attributes below.  The stand-in is a  *)
(* lexicon-driven tagger: tokens are whitespace-delimited words and single *)
(* punctuation marks, one blank after a token is its trailing whitespace   *)
(* and any other whitespace run is a token of its own, so that joining     *)
(* text_with_ws over the tokens gives back the annotated text.             *)
(***************************************************************************)
RECURSIVE WordRun(_)
WordRun(s) == IF s = <<>> \/ ~IsWordChar(Head(s)) THEN 0 ELSE 1 + WordRun(Tail(s))

RECURSIVE RawTokens(_)
RawTokens(s) ==
    IF s = <<>> THEN <<>>
    ELSE IF IsSpace(Head(s))
         THEN LET n == LeadingSpaces(s) IN
              <<[text |-> SubSeq(s, 1, n), ws |-> <<>>]>>
                  \o RawTokens(SubSeq(s, n + 1, Len(s)))
         ELSE LET k   == IF IsWordChar(Head(s)) THEN WordRun(s) ELSE 1
                  sp  == k < Len(s) /\ s[k + 1] = " "
                  nxt == IF sp THEN k + 2 ELSE k + 1
              IN  <<[text |-> SubSeq(s, 1, k), ws |-> IF sp THEN <<" ">> ELSE <<>>]>>
                      \o RawTokens(SubSeq(s, nxt, Len(s)))

\* Lexicon of the stand-in tagger: coarse tag, fine tag and lemma by lower-case form.
Lexicon ==
    { <<<<"t", "h", "e">>, "DET", "DT", <<"t", "h", "e">>>>,       <<<<"a">>, "DET", "DT", <<"a">>>>,
      <<<<"a", "n">>, "DET", "DT", <<"a", "n">>>>,
      <<<<"c", "a", "t">>, "NOUN", "NN", <<"c", "a", "t">>>>,      <<<<"d", "o", "g">>, "NOUN", "NN", <<"d", "o", "g">>>>,
      <<<<"d", "o", "g", "s">>, "NOUN", "NNS", <<"d", "o", "g">>>>,    <<<<"t", "e", "a", "m">>, "NOUN", "NN", <<"t", "e", "a", "m">>>>,
      <<<<"e", "n", "g", "i", "n", "e", "e", "r">>, "NOUN", "NN", <<"e", "n", "g", "i", "n", "e", "e", "r">>>>,
      <<<<"h", "o", "u", "r">>, "NOUN", "NN", <<"h", "o", "u", "r">>>>,    <<<<"s", "u", "n">>, "NOUN", "NN", <<"s", "u", "n">>>>,
      <<<<"s", "c", "h", "o", "o", "l">>, "NOUN", "NN", <<"s", "c", "h", "o", "o", "l">>>>,
      <<<<"m", "a", "r", "y">>, "PROPN", "NNP", <<"m", "a", "r", "y">>>>,  <<<<"j", "o", "h", "n">>, "PROPN", "NNP", <<"j", "o", "h", "n">>>>,
      <<<<"h", "e">>, "PRON", "PRP", <<"h", "e">>>>,       <<<<"s", "h", "e">>, "PRON", "PRP", <<"s", "h", "e">>>>,
      <<<<"i", "t">>, "PRON", "PRP", <<"i", "t">>>>,       <<<<"t", "h", "e", "y">>, "PRON", "PRP", <<"t", "h", "e", "y">>>>,
      <<<<"h", "i", "m">>, "PRON", "PRP", <<"h", "e">>>>,      <<<<"h", "e", "r">>, "PRON", "PRP", <<"s", "h", "e">>>>,
      <<<<"t", "h", "e", "m">>, "PRON", "PRP", <<"t", "h", "e", "y">>>>,   <<<<"h", "i", "s">>, "PRON", "PRP$", <<"h", "i", "s">>>>,
      <<<<"i", "t", "s">>, "PRON", "PRP$", <<"i", "t", "s">>>>,    <<<<"t", "h", "e", "i", "r">>, "PRON", "PRP$", <<"t", "h", "e", "i", "r">>>>, <<<<"y", "o", "u", "r">>, "PRON", "PRP$", <<"y", "o", "u", "r">>>>, <<<<"v", "e", "r", "y">>, "ADV", "RB", <<"v", "e", "r", "y">>>>,
      <<<<"s", "l", "e", "e", "p", "s">>, "VERB", "VBZ", <<"s", "l", "e", "e", "p">>>>, <<<<"s", "l", "e", "e", "p">>, "VERB", "VBP", <<"s", "l", "e", "e", "p">>>>,
      <<<<"b", "a", "r", "k", "s">>, "VERB", "VBZ", <<"b", "a", "r", "k">>>>,  <<<<"b", "a", "r", "k">>, "VERB", "VBP", <<"b", "a", "r", "k">>>>,
      <<<<"w", "i", "n", "s">>, "VERB", "VBZ", <<"w", "i", "n">>>>,    <<<<"w", "i", "n">>, "VERB", "VBP", <<"w", "i", "n">>>>,
      <<<<"w", "o", "n">>, "VERB", "VBD", <<"w", "i", "n">>>>,
      <<<<"g", "o", "e", "s">>, "VERB", "VBZ", <<"g", "o">>>>,     <<<<"g", "o">>, "VERB", "VBP", <<"g", "o">>>>,
      <<<<"w", "e", "n", "t">>, "VERB", "VBD", <<"g", "o">>>>,
      <<<<"s", "e", "e", "s">>, "VERB", "VBZ", <<"s", "e", "e">>>>,    <<<<"s", "e", "e">>, "VERB", "VBP", <<"s", "e", "e">>>>,
      <<<<"s", "a", "w">>, "VERB", "VBD", <<"s", "e", "e">>>>,
      <<<<"w", "i", "l", "l">>, "AUX", "MD", <<"w", "i", "l", "l">>>>,
      <<<<"i", "s">>, "AUX", "VBZ", <<"b", "e">>>>,        <<<<"a", "r", "e">>, "AUX", "VBP", <<"b", "e">>>>,
      <<<<"w", "a", "s">>, "AUX", "VBD", <<"b", "e">>>>,       <<<<"w", "e", "r", "e">>, "AUX", "VBD", <<"b", "e">>>>,
      <<<<"h", "a", "s">>, "AUX", "VBZ", <<"h", "a", "v", "e">>>>,     <<<<"h", "a", "v", "e">>, "AUX", "VBP", <<"h", "a", "v", "e">>>>,
      <<<<"h", "a", "d">>, "AUX", "VBD", <<"h", "a", "v", "e">>>>,
      <<<<"n", "o", "t">>, "PART", "RB", <<"n", "o", "t">>>>,      <<<<"t", "o">>, "PART", "TO", <<"t", "o">>>>,
      <<<<"r", "i", "c", "h">>, "ADJ", "JJ", <<"r", "i", "c", "h">>>>,     <<<<"h", "a", "p", "p", "y">>, "ADJ", "JJ", <<"h", "a", "p", "p", "y">>>>,
      <<<<"h", "o", "n", "e", "s", "t">>, "ADJ", "JJ", <<"h", "o", "n", "e", "s", "t">>>>,
      <<<<"t", "o", "m", "o", "r", "r", "o", "w">>, "NOUN", "NN", <<"t", "o", "m", "o", "r", "r", "o", "w">>>>,
      <<<<"y", "e", "s", "t", "e", "r", "d", "a", "y">>, "NOUN", "NN", <<"y", "e", "s", "t", "e", "r", "d", "a", "y">>>>,
      <<<<"n", "o", "w">>, "ADV", "RB", <<"n", "o", "w">>>>,       <<<<"l", "o", "u", "d", "l", "y">>, "ADV", "RB", <<"l", "o", "u", "d", "l", "y">>>>,
      <<<<"i", "n">>, "ADP", "IN", <<"i", "n">>>>,         <<<<"o", "f">>, "ADP", "IN", <<"o", "f">>>>,
      <<<<"i", "f">>, "SCONJ", "IN", <<"i", "f">>>>,       <<<<"b", "e", "c", "a", "u", "s", "e">>, "SCONJ", "IN", <<"b", "e", "c", "a", "u", "s", "e">>>>,
      <<<<"a", "n", "d">>, "CCONJ", "CC", <<"a", "n", "d">>>>,     <<<<"b", "u", "t">>, "CCONJ", "CC", <<"b", "u", "t">>>>,
      <<<<"e", "a", "c", "h">>, "PRON", "DT", <<"e", "a", "c", "h">>>> }

\* Tag of one raw token out of context, lw being its lower-case form: a
\* whitespace run is SPACE, a punctuation mark PUNCT, a known form is tagged
\* by its entry of the lexicon and an unknown word is a common noun whose
\* lemma is its lower-case form.
TagToken(t, lw) ==
    LET TagWord(entries) ==
            IF entries # {}
              THEN LET e == CHOOSE x \in entries : TRUE IN
                   [pos |-> e[2], tag |-> e[3], lemma |-> e[4]]
            ELSE [pos |-> "NOUN", tag |-> "NN", lemma |-> lw]
    IN  IF IsSpace(t.text[1])
          THEN [pos |-> "SPACE", tag |-> "_SP", lemma |-> t.text]
        ELSE IF ~IsWordChar(t.text[1])
          THEN [pos |-> "PUNCT", tag |-> ".", lemma |-> t.text]
        ELSE TagWord({e \in Lexicon : e[1] = lw})

\* Characters that end a sentence for the stand-in sentence segmenter.
SentenceEnd == {".", "!", "?"}

\* Character offsets (0-based) of the raw tokens from token k, the first of
\* them starting at offset at.
RECURSIVE TokenOffsets(_, _, _)
TokenOffsets(raw, k, at) ==
    IF k > Len(raw) THEN <<>>
    ELSE <<at>> \o TokenOffsets(raw, k + 1, at + Len(raw[k].text) + Len(raw[k].ws))

\* Sentence numbers of the raw tokens from token k.  A word opens a new
\* sentence when the nearest token before it that is not whitespace is a
\* terminal mark (after_end); cur is the number of the sentence so far.
RECURSIVE SentenceNumbers(_, _, _, _)
SentenceNumbers(raw, k, cur, after_end) ==
    IF k > Len(raw) THEN <<>>
    ELSE LET c     == raw[k].text[1]
             opens == after_end /\ IsWordChar(c)
             num   == IF opens THEN cur + 1 ELSE cur
         IN  <<num>> \o SentenceNumbers(raw, k + 1, num,
                                        IF IsSpace(c) THEN after_end ELSE c \in SentenceEnd)

\* The smallest and the largest element of a non-empty set of numbers.
Min(S) == CHOOSE m \in S : \A o \in S : m <= o

Max(S) == CHOOSE m \in S : \A o \in S : m >= o

\* self.nlp(text): the annotated token sequence (doc).  Token positions are
\* 1-based here; token.i of the source is position - 1.  The stand-in parse
\* of a sentence: its root is its first verb (else its first auxiliary,
\* else its first token), the subject of the root is the first noun or
\* pronoun before the first verb or auxiliary, a noun governed by a
\* preposition is its object, and a base-form verb after a modal or "to" is
\* tagged VB.  In the local definitions raw are the raw tokens, base their
\* tags out of context, sent their sentence numbers and offs their offsets.
nlp(text) ==
    LET SentenceCount(sent) == IF sent = <<>> THEN 0 ELSE sent[Len(sent)]
        \* The root of each sentence.
        Roots(base, sent) ==
            [s \in 1..SentenceCount(sent) |->
                LET members == {j \in 1..Len(sent) : sent[j] = s}
                    verbs   == {j \in members : base[j].pos = "VERB"}
                    verbals == {j \in members : base[j].pos \in {"VERB", "AUX"}}
                IN  IF verbs # {} THEN Min(verbs)
                    ELSE IF verbals # {} THEN Min(verbals)
                    ELSE Min(members)]
        \* A noun or pronoun that is not a possessive.
        Nominal(t) == t.pos \in {"NOUN", "PROPN", "PRON"} /\ t.tag # "PRP$"
        \* The subject of each sentence; 0 when there is none.
        Subjects(base, sent) ==
            [s \in 1..SentenceCount(sent) |->
                LET verbals == {j \in 1..Len(sent) :
                                   sent[j] = s /\ base[j].pos \in {"VERB", "AUX"}}
                    before  == {j \in 1..Len(sent) :
                                   /\ sent[j] = s /\ Nominal(base[j])
                                   /\ \A v \in verbals : j < v}
                IN  IF verbals = {} \/ before = {} THEN 0 ELSE Min(before)]
        \* The nearest token before each token in its sentence that is neither
        \* whitespace, determiner nor adjective; 0 when there is none.
        Governors(base, sent) ==
            [k \in 1..Len(sent) |->
                LET g == {j \in 1..(k - 1) :
                             sent[j] = sent[k] /\ base[j].pos \notin {"SPACE", "DET", "ADJ"}}
                IN  IF g = {} THEN 0 ELSE Max(g)]
        \* The fine tag of token k in context.
        TagInContext(base, governor, k) ==
            IF /\ base[k].pos = "VERB" /\ base[k].tag = "VBP"
               /\ governor[k] # 0 /\ base[governor[k]].tag \in {"MD", "TO"}
            THEN "VB" ELSE base[k].tag
        \* The dependency label of a token t at position k whose sentence has
        \* the given root and subject; gov_pos is the coarse tag of its
        \* governor when has_gov.
        DepLabel(t, k, root, subj, has_gov, gov_pos) ==
            IF k = root THEN "ROOT"
            ELSE IF t.pos = "AUX" THEN "aux"
            ELSE IF t.pos = "PUNCT" THEN "punct"
            ELSE IF t.pos = "DET" THEN "det"
            ELSE IF t.tag = "PRP$" THEN "poss"
            ELSE IF k = subj THEN "nsubj"
            ELSE IF Nominal(t) /\ has_gov /\ gov_pos = "ADP" THEN "pobj"
            ELSE IF Nominal(t) /\ k > root THEN "dobj"
            ELSE "dep"
        Parse(raw, base, sent, offs, root, subject, governor) ==
            [k \in 1..Len(raw) |->
                [text     |-> raw[k].text,
                 ws       |-> raw[k].ws,
                 idx      |-> offs[k],
                 pos      |-> base[k].pos,
                 tag      |-> TagInContext(base, governor, k),
                 lemma    |-> base[k].lemma,
                 dep      |-> DepLabel(base[k], k, root[sent[k]], subject[sent[k]],
                                       governor[k] # 0,
                                       base[IF governor[k] = 0 THEN k ELSE governor[k]].pos),
                 head     |-> root[sent[k]],
                 sent     |-> sent[k],
                 is_punct |-> base[k].pos = "PUNCT",
                 is_space |-> base[k].pos = "SPACE"]]
        ParseTagged(raw, base, sent, offs) ==
            Parse(raw, base, sent, offs, Roots(base, sent), Subjects(base, sent),
                  Governors(base, sent))
        Annotate(raw) ==
            ParseTagged(raw, [k \in 1..Len(raw) |-> TagToken(raw[k], lower(raw[k].text))],
                        SentenceNumbers(raw, 1, 1, FALSE), TokenOffsets(raw, 1, 0))
    IN  Annotate(RawTokens(text))

\* token.text_with_ws
text_with_ws(t) == t.text \o t.ws

\* "".join(parts)
RECURSIVE Join(_)
Join(parts) == IF parts = <<>> THEN <<>> ELSE Head(parts) \o Join(Tail(parts))

\* sep.join(parts)
RECURSIVE JoinWith(_, _)
JoinWith(sep, parts) ==
    IF parts = <<>> THEN <<>>
    ELSE IF Len(parts) = 1 THEN Head(parts)
    ELSE Head(parts) \o sep \o JoinWith(sep, Tail(parts))

\* s.text of sentence s of doc: the text of its tokens from token k on.
RECURSIVE SentenceText(_, _, _)
SentenceText(doc, s, k) ==
    IF k > Len(doc) THEN <<>>
    ELSE (IF doc[k].sent = s THEN text_with_ws(doc[k]) ELSE <<>>)
         \o SentenceText(doc, s, k + 1)

\* [s.text.strip() for s in doc.sents]: the stripped text of each sentence.
Sentences(doc) ==
    [s \in 1..(IF doc = <<>> THEN 0 ELSE doc[Len(doc)].sent) |->
        strip(SentenceText(doc, s, 1))]

\* utils.get_sentences: the non-empty stripped sentences of the text.
get_sentences(text) ==
    SelectSeq(Sentences(nlp(text)), LAMBDA s : s # <<>>)

(***************************************************************************)
(* The checker service (self.tool, LanguageTool).  It is an external       *)
(* collaborator: each call is answered by an outcome lt drawn by the       *)
(* caller: "raise" (service failure), "same" (text returned unchanged) or  *)
(* "fix" (a correction; the stand-in is the checker's rule that a text     *)
(* starts with an upper-case letter).                                      *)
(***************************************************************************)
CheckerOutcomes == {"raise", "same", "fix"}

\* self.tool.correct(text) for an outcome other than "raise".
tool_correct(text, lt) ==
    IF lt = "fix" /\ text # <<>> /\ Head(text) \in LowerSet
    THEN <<ToUpper(Head(text))>> \o Tail(text)
    ELSE text

\* self.tool.check(text): the matches, here their number.
tool_check(text, lt) == IF tool_correct(text, lt) # text THEN 1 ELSE 0

\* The value standing for an exception leaving a call.
Raised == [exception |-> TRUE]

IsRaised(r) == "exception" \in DOMAIN r

(***************************************************************************)
(* Phase 6: SubjectVerbAgreementCorrector                                  *)
(***************************************************************************)
SINGULAR_SUBJ == {<<"h", "e">>, <<"s", "h", "e">>, <<"i", "t">>, <<"e", "a", "c", "h">>, <<"e", "v", "e", "r", "y", "o", "n", "e">>, <<"s", "o", "m", "e", "o", "n", "e">>, <<"n", "o", "b", "o", "d", "y">>,
                     <<"a", "n", "y", "o", "n", "e">>, <<"e", "v", "e", "r", "y", "b", "o", "d", "y">>, <<"o", "n", "e">>, <<"s", "o", "m", "e", "b", "o", "d", "y">>, <<"a", "n", "y", "b", "o", "d", "y">>, <<"n", "o", " ", "o", "n", "e">>}

PLURAL_SUBJ == {<<"t", "h", "e", "y">>, <<"w", "e">>, <<"y", "o", "u">>, <<"p", "o", "l", "i", "c", "e">>, <<"p", "e", "o", "p", "l", "e">>, <<"c", "h", "i", "l", "d", "r", "e", "n">>, <<"d", "a", "t", "a">>,
                   <<"m", "e", "d", "i", "a">>, <<"c", "a", "t", "t", "l", "e">>, <<"s", "t", "a", "f", "f">>, <<"f", "i", "s", "h">>, <<"d", "e", "e", "r">>}

COLLECTIVE_SINGULAR == {<<"t", "e", "a", "m">>, <<"f", "a", "m", "i", "l", "y">>, <<"c", "o", "m", "m", "i", "t", "t", "e", "e">>, <<"g", "r", "o", "u", "p">>, <<"c", "l", "a", "s", "s">>, <<"g", "o", "v", "e", "r", "n", "m", "e", "n", "t">>,
                           <<"s", "t", "a", "f", "f">>, <<"a", "u", "d", "i", "e", "n", "c", "e">>, <<"j", "u", "r", "y">>, <<"c", "r", "o", "w", "d">>, <<"b", "a", "n", "d">>, <<"p", "u", "b", "l", "i", "c">>, <<"c", "o", "m", "p", "a", "n", "y">>}

ACADEMIC_SINGULAR == {<<"m", "a", "t", "h", "e", "m", "a", "t", "i", "c", "s">>, <<"p", "h", "y", "s", "i", "c", "s">>, <<"s", "t", "a", "t", "i", "s", "t", "i", "c", "s">>, <<"e", "c", "o", "n", "o", "m", "i", "c", "s">>,
                         <<"p", "o", "l", "i", "t", "i", "c", "s">>, <<"n", "e", "w", "s">>, <<"e", "t", "h", "i", "c", "s">>, <<"a", "t", "h", "l", "e", "t", "i", "c", "s">>}

QUANTIFIER_SINGULAR == {<<"n", "e", "i", "t", "h", "e", "r", " ", "o", "f">>, <<"e", "i", "t", "h", "e", "r", " ", "o", "f">>, <<"e", "a", "c", "h", " ", "o", "f">>, <<"o", "n", "e", " ", "o", "f">>, <<"e", "v", "e", "r", "y", " ", "o", "n", "e", " ", "o", "f">>}

QUANTIFIER_PLURAL == {<<"a", " ", "n", "u", "m", "b", "e", "r", " ", "o", "f">>, <<"a", " ", "l", "o", "t", " ", "o", "f">>, <<"s", "o", "m", "e", " ", "o", "f">>, <<"m", "a", "n", "y", " ", "o", "f">>,
                         <<"s", "e", "v", "e", "r", "a", "l", " ", "o", "f">>, <<"a", " ", "f", "e", "w", " ", "o", "f">>, <<"p", "l", "e", "n", "t", "y", " ", "o", "f">>}

\* self.IRREGULAR of phase 6: lemma, singular form, plural form.
IRREGULAR == { <<<<"b", "e">>, <<"i", "s">>, <<"a", "r", "e">>>>, <<<<"h", "a", "v", "e">>, <<"h", "a", "s">>, <<"h", "a", "v", "e">>>>, <<<<"d", "o">>, <<"d", "o", "e", "s">>, <<"d", "o">>>>,
               <<<<"g", "o">>, <<"g", "o", "e", "s">>, <<"g", "o">>>>, <<<<"f", "l", "y">>, <<"f", "l", "i", "e", "s">>, <<"f", "l", "y">>>>, <<<<"t", "r", "y">>, <<"t", "r", "i", "e", "s">>, <<"t", "r", "y">>>> }

Vowels == {"a", "e", "i", "o", "u"}

\* The value standing for the IndexError of lemma[-2] in _conjugate.
IndexError == <<"IndexError">>

\* SubjectVerbAgreementCorrector._conjugate; on the one-letter lemma "y" the
\* test lemma[-2] raises.
_conjugate(lemma0, num) ==
    LET \* Lines 192-197: the third person singular of a regular lemma.
        ThirdPerson(lemma) ==
            IF endswith(lemma, <<"y">>) /\ Len(lemma) < 2 THEN IndexError
            ELSE IF endswith(lemma, <<"y">>) /\ lemma[Len(lemma) - 1] \notin Vowels
              THEN SubSeq(lemma, 1, Len(lemma) - 1) \o <<"i", "e", "s">>
            ELSE IF \E suf \in {<<"s">>, <<"s", "h">>, <<"c", "h">>, <<"x">>, <<"z">>, <<"o">>} : endswith(lemma, suf)
              THEN lemma \o <<"e", "s">>
            ELSE lemma \o <<"s">>
        \* Lines 186-197; irr holds the entry of IRREGULAR for lemma, if any.
        Conjugate(lemma, irr) ==
            IF irr # {}
              THEN LET e == CHOOSE x \in irr : TRUE IN
                   IF num = "singular" THEN e[2] ELSE e[3]
            ELSE IF num = "plural" THEN lemma
            ELSE ThirdPerson(lemma)
    IN  Conjugate(lower(lemma0), {e \in IRREGULAR : e[1] = lower(lemma0)})

\* The tokens of subj.subtree: for the stand-in parse, the tokens of the
\* subject's sentence before its first verb or auxiliary, whitespace excluded.
subtree(doc, j) ==
    LET verbals == {k \in 1..Len(doc) : doc[k].sent = doc[j].sent /\ doc[k].pos \in {"VERB", "AUX"}}
        first   == doc[Min(verbals)].idx
    IN  SelectSeq(doc, LAMBDA t : t.sent = doc[j].sent /\ ~t.is_space /\ t.idx < first)

SubjectNumber_plural_first(doc, j) ==
    LET LowerTexts(sub) == JoinWith(<<" ">>, [k \in 1..Len(sub) |-> lower(sub[k].text)])
        NumberOf(subj_lower, subtree_lower) ==
            IF ContainsAny(subtree_lower, QUANTIFIER_PLURAL) THEN "plural"
            ELSE IF ContainsAny(subtree_lower, QUANTIFIER_SINGULAR) THEN "singular"
            ELSE IF subj_lower \in PLURAL_SUBJ THEN "plural"
            ELSE IF \/ subj_lower \in SINGULAR_SUBJ
                    \/ subj_lower \in COLLECTIVE_SINGULAR
                    \/ subj_lower \in ACADEMIC_SINGULAR THEN "singular"
            ELSE IF doc[j].tag \in {"NNS", "NNPS"} THEN "plural"
            ELSE "singular"
    IN  NumberOf(lower(doc[j].text), LowerTexts(subtree(doc, j)))

\* The number the subject at position j requires (lines 108-128).
SubjectNumber(doc, j) ==
    LET \* " ".join([t.text.lower() for t in subj.subtree])
        LowerTexts(sub) == JoinWith(<<" ">>, [k \in 1..Len(sub) |-> lower(sub[k].text)])
        NumberOf(subj_lower, subtree_lower) ==
            IF ContainsAny(subtree_lower, QUANTIFIER_SINGULAR) THEN "singular"
            ELSE IF ContainsAny(subtree_lower, QUANTIFIER_PLURAL) THEN "plural"
            ELSE IF subj_lower \in PLURAL_SUBJ THEN "plural"
            ELSE IF \/ subj_lower \in SINGULAR_SUBJ
                    \/ subj_lower \in COLLECTIVE_SINGULAR
                    \/ subj_lower \in ACADEMIC_SINGULAR THEN "singular"
            ELSE IF doc[j].tag \in {"NNS", "NNPS"} THEN "plural"
            ELSE "singular"
    IN  NumberOf(lower(doc[j].text), LowerTexts(subtree(doc, j)))

\* token.children restricted to subject relations, in document order.
SubjectChildren(doc, k) ==
    {j \in 1..Len(doc) : /\ j # k
                         /\ doc[j].head = k
                         /\ doc[j].dep \in {"nsubj", "nsubjpass", "csubj", "csubjpass"}}

\* The form that replaces the verb at position k (case preserved), or the
\* verb's own text when the scan passes over it (lines 98-144).
TargetForm(doc, k) ==
    LET \* Lines 136-144: the case of the verb's text given to the conjugated
        \* form; an empty form leaves the verb as it is.
        PreserveCase(form) ==
            IF form = IndexError THEN IndexError
            ELSE IF form = <<>> THEN doc[k].text
            ELSE IF Head(doc[k].text) \in UpperSet THEN capitalize(form)
            ELSE IF isupper(doc[k].text) THEN upper(form)
            ELSE form
        FormFor(subjs) ==
            IF doc[k].pos # "VERB"
               \/ doc[k].dep \notin {"ROOT", "aux", "auxpass", "csubj", "csubjpass"}
               \/ subjs = {}
              THEN doc[k].text
            ELSE PreserveCase(_conjugate(doc[k].lemma, SubjectNumber(doc, Min(subjs))))
    IN  FormFor(SubjectChildren(doc, k))

\* The while loop of correct (lines 93-167) over the annotated text doc from
\* scan position i (1-based):
\* the first verb whose required form differs is replaced, the text is
\* re-annotated and the scan restarts; the result is the final text and the
\* edits, or that an exception was raised.
RECURSIVE SvaScan(_, _, _)
SvaScan(doc, issues, i) ==
    LET \* The token at i, target being its required form.
        SvaAt(target) ==
            IF target = IndexError
              THEN [text |-> <<>>, issues |-> issues, raised |-> TRUE]
            ELSE IF lower(target) # lower(doc[i].text)
              THEN SvaScan(nlp(Join([k \in 1..Len(doc) |->
                                       IF k = i THEN target \o doc[i].ws
                                       ELSE text_with_ws(doc[k])])),
                           Append(issues,
                                  [orig |-> doc[i].text, repl |-> target, phase |-> 6,
                                   source |-> "spaCy-rule",
                                   subject |-> doc[Min(SubjectChildren(doc, i))].text,
                                   confidence |-> 970]),
                           1)
            ELSE SvaScan(doc, issues, i + 1)
    IN  IF i > Len(doc)
        THEN [text |-> Join([k \in 1..Len(doc) |-> text_with_ws(doc[k])]),
              issues |-> issues, raised |-> FALSE]
        ELSE SvaAt(TargetForm(doc, i))

Phase6Correct_reports_checker(text0, lt) ==
    LET LtIssues(text, fixed) ==
            <<[phase |-> 6, type |-> "LT_SVA", orig |-> text, repl |-> fixed,
               confidence |-> 980]>>
        Result6(scan) ==
            IF scan.raised THEN Raised
            ELSE [corrected_text |-> strip(DetachSpaceBefore(scan.text, PunctChars)),
                  issues_found   |-> scan.issues,
                  confidence     |-> IF scan.issues # <<>> THEN 980 ELSE 1000]
        Scan6(text, fixed) == Result6(SvaScan(nlp(fixed), LtIssues(text, fixed), 1))
        Checked6(text) ==
            IF text = <<>>
              THEN [corrected_text |-> text, issues_found |-> <<>>, confidence |-> 1000]
            ELSE Scan6(text, IF lt = "raise" THEN text ELSE tool_correct(text, lt))
    IN  Checked6(strip(preprocess_text(text0)))

\* SubjectVerbAgreementCorrector.correct; lt is the checker's outcome.
Phase6Correct(text0, lt) ==
    LET \* Lines 75-82: the edit recorded when the checker changed the text.
        LtIssues(text, fixed) ==
            IF fixed # text
            THEN <<[phase |-> 6, type |-> "LT_SVA", orig |-> text, repl |-> fixed,
                    confidence |-> 980]>>
            ELSE <<>>
        \* Lines 172-181, scan being the outcome of the while loop.
        Result6(scan) ==
            IF scan.raised THEN Raised
            ELSE [corrected_text |-> strip(DetachSpaceBefore(scan.text, PunctChars)),
                  issues_found   |-> scan.issues,
                  confidence     |-> IF scan.issues # <<>> THEN 980 ELSE 1000]
        \* Lines 90-181, fixed being the text after the checker.
        Scan6(text, fixed) == Result6(SvaScan(nlp(fixed), LtIssues(text, fixed), 1))
        \* Lines 65-181, text being preprocessed and stripped.
        Checked6(text) ==
            IF text = <<>>
              THEN [corrected_text |-> text, issues_found |-> <<>>, confidence |-> 1000]
            ELSE Scan6(text, IF lt = "raise" THEN text ELSE tool_correct(text, lt))
    IN  Checked6(strip(preprocess_text(text0)))
(***************************************************************************)
(* Phase 7: TenseConsistencyCorrector                                      *)
(***************************************************************************)
\* self.irregular of phase 7, in the order of the dictionary: base, past.
irregular ==
    << <<<<"g", "o">>, <<"w", "e", "n", "t">>>>, <<<<"b", "u", "y">>, <<"b", "o", "u", "g", "h", "t">>>>, <<<<"c", "o", "m", "e">>, <<"c", "a", "m", "e">>>>, <<<<"d", "o">>, <<"d", "i", "d">>>>,
       <<<<"e", "a", "t">>, <<"a", "t", "e">>>>, <<<<"g", "i", "v", "e">>, <<"g", "a", "v", "e">>>>, <<<<"h", "a", "v", "e">>, <<"h", "a", "d">>>>, <<<<"k", "n", "o", "w">>, <<"k", "n", "e", "w">>>>,
       <<<<"m", "a", "k", "e">>, <<"m", "a", "d", "e">>>>, <<<<"s", "e", "e">>, <<"s", "a", "w">>>>, <<<<"t", "a", "k", "e">>, <<"t", "o", "o", "k">>>>, <<<<"t", "h", "i", "n", "k">>, <<"t", "h", "o", "u", "g", "h", "t">>>>,
       <<<<"w", "r", "i", "t", "e">>, <<"w", "r", "o", "t", "e">>>>, <<<<"r", "u", "n">>, <<"r", "a", "n">>>>, <<<<"f", "i", "n", "d">>, <<"f", "o", "u", "n", "d">>>>, <<<<"l", "e", "a", "v", "e">>, <<"l", "e", "f", "t">>>>,
       <<<<"s", "a", "y">>, <<"s", "a", "i", "d">>>>, <<<<"g", "e", "t">>, <<"g", "o", "t">>>>, <<<<"b", "e", "g", "i", "n">>, <<"b", "e", "g", "a", "n">>>>, <<<<"d", "r", "i", "n", "k">>, <<"d", "r", "a", "n", "k">>>>,
       <<<<"d", "r", "i", "v", "e">>, <<"d", "r", "o", "v", "e">>>>, <<<<"f", "l", "y">>, <<"f", "l", "e", "w">>>>, <<<<"g", "r", "o", "w">>, <<"g", "r", "e", "w">>>>, <<<<"s", "i", "n", "g">>, <<"s", "a", "n", "g">>>>,
       <<<<"s", "w", "i", "m">>, <<"s", "w", "a", "m">>>>, <<<<"w", "e", "a", "r">>, <<"w", "o", "r", "e">>>>, <<<<"s", "e", "l", "l">>, <<"s", "o", "l", "d">>>>, <<<<"t", "e", "l", "l">>, <<"t", "o", "l", "d">>>>,
       <<<<"c", "h", "o", "o", "s", "e">>, <<"c", "h", "o", "s", "e">>>>, <<<<"f", "a", "l", "l">>, <<"f", "e", "l", "l">>>>, <<<<"f", "o", "r", "g", "e", "t">>, <<"f", "o", "r", "g", "o", "t">>>>,
       <<<<"f", "r", "e", "e", "z", "e">>, <<"f", "r", "o", "z", "e">>>>, <<<<"k", "e", "e", "p">>, <<"k", "e", "p", "t">>>>, <<<<"m", "e", "e", "t">>, <<"m", "e", "t">>>>, <<<<"r", "i", "d", "e">>, <<"r", "o", "d", "e">>>>,
       <<<<"s", "p", "e", "a", "k">>, <<"s", "p", "o", "k", "e">>>>, <<<<"t", "e", "a", "c", "h">>, <<"t", "a", "u", "g", "h", "t">>>>, <<<<"u", "n", "d", "e", "r", "s", "t", "a", "n", "d">>, <<"u", "n", "d", "e", "r", "s", "t", "o", "o", "d">>>>,
       <<<<"w", "i", "n">>, <<"w", "o", "n">>>>, <<<<"b", "r", "e", "a", "k">>, <<"b", "r", "o", "k", "e">>>> >>

past_clues == {<<"y", "e", "s", "t", "e", "r", "d", "a", "y">>, <<"a", "g", "o">>, <<"l", "a", "s", "t">>, <<"e", "a", "r", "l", "i", "e", "r">>, <<"b", "e", "f", "o", "r", "e">>}

future_clues == {<<"t", "o", "m", "o", "r", "r", "o", "w">>, <<"n", "e", "x", "t">>, <<"s", "o", "o", "n">>, <<"w", "i", "l", "l">>, <<"g", "o", "i", "n", "g", " ", "t", "o">>}

present_clues == {<<"n", "o", "w">>, <<"t", "o", "d", "a", "y">>, <<"a", "l", "w", "a", "y", "s">>, <<"e", "v", "e", "r", "y">>}

\* The typewriter apostrophe of "didn't" and the typographic apostrophe
\* (U+2019) of the second pattern of _fix_aux_negation, the latter written
\* as a tilde.
Apostrophe == "'"

CurlyApostrophe == "~"

\* The entry of column to in the first row of table whose column from is w,
\* or other when no row has it.
RowOf(table, from, w) ==
    LET rows == {r \in 1..Len(table) : table[r][from] = w}
    IN  IF rows = {} THEN 0 ELSE Min(rows)

Translate(table, from, to, w, other) ==
    IF RowOf(table, from, w) = 0 THEN other ELSE table[RowOf(table, from, w)][to]

\* TenseConsistencyCorrector._past_participle
_past_participle(verb) ==
    Translate(irregular, 1, 2, lower(verb),
              IF ~endswith(verb, <<"e", "d">>) THEN verb \o <<"e", "d">> ELSE verb)

\* TenseConsistencyCorrector._get_base
_get_base(verb) == Translate(irregular, 2, 1, lower(verb), verb)

\* The pieces of a text: maximal runs of word characters, maximal runs of
\* whitespace, and every other character on its own.
RECURSIVE Pieces(_)
Pieces(s) ==
    IF s = <<>> THEN <<>>
    ELSE LET n == IF IsWordChar(Head(s)) THEN WordRun(s)
                  ELSE IF IsSpace(Head(s)) THEN LeadingSpaces(s)
                  ELSE 1
         IN  <<SubSeq(s, 1, n)>> \o Pieces(SubSeq(s, n + 1, Len(s)))

IsWordPiece(p) == IsWordChar(Head(p))

IsSpacePiece(p) == IsSpace(Head(p))

\* The substitutions of _fix_aux_negation and _fix_continuous_perfect, each
\* named by its rule.  Every pattern is anchored by \b and separates its
\* words by \s+, so a match is a sequence of whole pieces.  MatchLen is the
\* number of pieces a match at the head of ps consumes (0: no match) and
\* Replacement the text that replaces them.
AuxRules == {"didnt", "do", "was", "have", "has", "had"}

\* The auxiliary of the three patterns of _fix_continuous_perfect.
AuxWord == [have |-> <<"h", "a", "v", "e">>, has |-> <<"h", "a", "s">>, had |-> <<"h", "a", "d">>]

FourPasts == {<<"w", "e", "n", "t">>, <<"c", "a", "m", "e">>, <<"b", "o", "u", "g", "h", "t">>, <<"s", "a", "w">>}

\* word, whitespace, word at the head of ps
PairAtHead(ps) ==
    /\ Len(ps) >= 3
    /\ IsWordPiece(ps[1]) /\ IsSpacePiece(ps[2]) /\ IsWordPiece(ps[3])

\* word, apostrophe, "t", whitespace, word at the head of ps
NegatedPairAtHead(ps, apostrophe) ==
    /\ Len(ps) >= 5
    /\ IsWordPiece(ps[1]) /\ ps[2] = <<apostrophe>> /\ lower(ps[3]) = <<"t">>
    /\ IsSpacePiece(ps[4]) /\ IsWordPiece(ps[5])

MatchLen(ps, rule) ==
    CASE rule = "didnt" ->
           IF /\ NegatedPairAtHead(ps, Apostrophe)
              /\ lower(ps[1]) = <<"d", "i", "d", "n">>
              /\ Len(ps[5]) >= 3 /\ endswith(lower(ps[5]), <<"e", "d">>)
           THEN 5 ELSE 0
      [] rule = "do" ->
           IF /\ PairAtHead(ps)
              /\ lower(ps[1]) \in {<<"d", "o">>, <<"d", "o", "e", "s">>}
              /\ lower(ps[3]) \in FourPasts
           THEN 3
           ELSE IF /\ NegatedPairAtHead(ps, CurlyApostrophe)
                   /\ lower(ps[1]) \in {<<"d", "o", "n">>, <<"d", "o", "e", "s", "n">>}
                   /\ lower(ps[5]) \in FourPasts
           THEN 5 ELSE 0
      [] rule = "was" ->
           IF PairAtHead(ps) /\ lower(ps[1]) \in {<<"w", "a", "s">>, <<"w", "e", "r", "e">>} THEN 3 ELSE 0
      [] rule \in {"have", "has", "had"} ->
           IF PairAtHead(ps) /\ lower(ps[1]) = AuxWord[rule] THEN 3 ELSE 0

\* n is MatchLen(ps, rule), positive.
Replacement(ps, rule, n) ==
    CASE rule = "didnt" ->
           <<"d", "i", "d", "n">> \o <<Apostrophe>> \o <<"t", " ">> \o SubSeq(ps[5], 1, Len(ps[5]) - 2)
      [] rule = "do" ->
           IF n = 3
           THEN ps[1] \o <<" ">> \o _get_base(ps[3])
           ELSE ps[1] \o ps[2] \o ps[3] \o <<" ">> \o _get_base(ps[5])
      [] rule = "was" ->
           ps[1] \o <<" ">> \o ps[3] \o <<"i", "n", "g">>
      [] rule \in {"have", "has", "had"} ->
           AuxWord[rule] \o <<" ">> \o _past_participle(ps[3])

\* re.sub of one rule over the pieces of a text: leftmost matches, not
\* overlapping.
RECURSIVE SubRule(_, _)
SubRule(ps, rule) ==
    LET \* The head of ps, n being MatchLen(ps, rule).
        SubAt(n) ==
            IF n > 0
            THEN Replacement(ps, rule, n) \o SubRule(SubSeq(ps, n + 1, Len(ps)), rule)
            ELSE Head(ps) \o SubRule(Tail(ps), rule)
    IN  IF ps = <<>> THEN <<>> ELSE SubAt(MatchLen(ps, rule))

\* The substitutions of rules applied to s one after the other.
RECURSIVE ApplyRules(_, _)
ApplyRules(s, rules) ==
    IF rules = <<>> THEN s
    ELSE ApplyRules(SubRule(Pieces(s), Head(rules)), Tail(rules))

\* TenseConsistencyCorrector._fix_aux_negation
_fix_aux_negation(s) == ApplyRules(s, <<"didnt", "do", "was">>)

\* TenseConsistencyCorrector._fix_continuous_perfect
_fix_continuous_perfect(s) == ApplyRules(s, <<"have", "has", "had">>)

\* re.sub(rf"\b{word}\b", repl, s), case-insensitive when ci: every whole
\* word equal to word is replaced.
ReplaceWord(s, word, repl, ci) ==
    LET ReplacePieces(ps) ==
            Join([k \in 1..Len(ps) |->
                    IF /\ IsWordPiece(ps[k])
                       /\ (IF ci THEN lower(ps[k]) = lower(word) ELSE ps[k] = word)
                    THEN repl ELSE ps[k]])
    IN  ReplacePieces(Pieces(s))

\* re.search(rf"\b{word}\b", s, re.I)
SearchWord(s, word) ==
    LET SearchPieces(ps) ==
            \E k \in 1..Len(ps) : IsWordPiece(ps[k]) /\ lower(ps[k]) = lower(word)
    IN  SearchPieces(Pieces(s))

\* The past branch of _apply_rules (lines 144-150) over the tokens of the
\* sentence as annotated before the substitutions, from position k.
RECURSIVE PastBranch(_, _, _, _)
PastBranch(doc, k, s, issues) ==
    LET \* Token k, past being the past form of its lemma in irregular, or
        \* the empty text when the lemma is not a key.
        PastAt(past) ==
            IF /\ past # <<>>
               /\ doc[k].tag \in {"VB", "VBP", "VBZ"}
               /\ lower(doc[k].text) # past
            THEN PastBranch(doc, k + 1, ReplaceWord(s, doc[k].text, past, TRUE),
                            Append(issues, [type |-> "past_irregular", from |-> doc[k].text,
                                            to |-> past, phase |-> 7]))
            ELSE PastBranch(doc, k + 1, s, issues)
    IN  IF k > Len(doc) THEN [s |-> s, issues |-> issues]
        ELSE PastAt(Translate(irregular, 1, 2, lower(doc[k].lemma), <<>>))

\* The present branch of _apply_rules (lines 153-157) over the rows of
\* table (self.irregular) from row r.
RECURSIVE PresentBranch(_, _, _, _)
PresentBranch(table, r, s, issues) ==
    IF r > Len(table) THEN [s |-> s, issues |-> issues]
    ELSE IF SearchWord(s, table[r][2])
         THEN PresentBranch(table, r + 1, ReplaceWord(s, table[r][2], table[r][1], TRUE),
                            Append(issues, [type |-> "present_normalize", from |-> table[r][2],
                                            to |-> table[r][1], phase |-> 7]))
         ELSE PresentBranch(table, r + 1, s, issues)

\* The future branch of _apply_rules (lines 139-141): the four past forms,
\* matched in lower case only, go to their base; an edit is always recorded.
FutureBranch(s) ==
    LET FuturePieces(ps) ==
            Join([k \in 1..Len(ps) |->
                    IF ps[k] \in FourPasts THEN _get_base(ps[k]) ELSE ps[k]])
    IN  [s      |-> FuturePieces(Pieces(s)),
         issues |-> <<[type |-> "future_normalize", phase |-> 7]>>]

\* TenseConsistencyCorrector._apply_rules
_apply_rules(s0, tense) ==
    LET \* Lines 138-157: doc is the sentence as annotated on entry and s the
        \* sentence after the two groups of substitutions.
        TenseBranch(doc, s) ==
            IF tense = "future" THEN FutureBranch(s)
            ELSE IF tense = "past" THEN PastBranch(doc, 1, s, <<>>)
            ELSE IF tense = "present" THEN PresentBranch(irregular, 1, s, <<>>)
            ELSE [s |-> s, issues |-> <<>>]
    IN  TenseBranch(nlp(s0), _fix_continuous_perfect(_fix_aux_negation(s0)))

\* The deep recheck (self.gf, Gramformer), an optional collaborator: gf is
\* "none" when the stage holds no recheck object, "raise" when the call
\* fails, "same" when the best candidate is the sentence itself and "fix"
\* when it differs (the stand-in closes an open sentence with a period).
GfModes == {"none", "raise", "same", "fix"}

gf_correct(s, gf) ==
    IF gf = "fix" /\ s # <<>> /\ s[Len(s)] \notin SentenceEnd THEN s \o <<".">> ELSE s

_apply_lt_counts_failure(sent, lt) ==
    IF lt = "raise"
    THEN [s |-> sent,
          issues |-> <<[type |-> "LT", message |-> "Refined by LanguageTool", phase |-> 7]>>]
    ELSE IF tool_check(sent, lt) > 0 /\ tool_correct(sent, lt) # sent
    THEN [s |-> tool_correct(sent, lt),
          issues |-> <<[type |-> "LT", message |-> "Refined by LanguageTool", phase |-> 7]>>]
    ELSE [s |-> sent, issues |-> <<>>]

\* TenseConsistencyCorrector._apply_lt
_apply_lt(sent, lt) ==
    IF lt # "raise" /\ tool_check(sent, lt) > 0 /\ tool_correct(sent, lt) # sent
    THEN [s |-> tool_correct(sent, lt),
          issues |-> <<[type |-> "LT", message |-> "Refined by LanguageTool", phase |-> 7]>>]
    ELSE [s |-> sent, issues |-> <<>>]

\* TenseConsistencyCorrector._fix_sentence
_fix_sentence(sent, tense, gf, lt) ==
    LET \* The text of step replaces the text so far and its edits are appended.
        Extend(acc, step) == [s |-> step.s, issues |-> acc.issues \o step.issues]
        \* Lines 115-122; corrected is the recheck's best candidate for s.
        DeepRecheck(s, corrected) ==
            IF gf \in {"same", "fix"} /\ corrected # s
            THEN [s |-> corrected,
                  issues |-> <<[type |-> "GF",
                                message |-> "Deep tense recheck by Gramformer",
                                phase |-> 7]>>]
            ELSE [s |-> s, issues |-> <<>>]
        GfStep(acc) == Extend(acc, DeepRecheck(acc.s, gf_correct(acc.s, gf)))
        \* Lines 125-126.
        LtStep(acc) == Extend(acc, _apply_lt(acc.s, lt))
    IN  LtStep(GfStep(_apply_rules(sent, tense)))

\* The score of one token in _detect_dominant_tense (lines 93-98).
TokenClue(tok) ==
    IF tok.text \in past_clues \/ tok.tag \in {"VBD", "VBN"} THEN "past"
    ELSE IF tok.text \in future_clues \/ lower(tok.text) = <<"w", "i", "l", "l">> THEN "future"
    ELSE IF tok.tag \in {"VBZ", "VBP"} THEN "present"
    ELSE "none"

\* The three scores of _detect_dominant_tense before the maximum is taken.
TenseScores(text) ==
    LET CountClue(doc, c) == Cardinality({k \in 1..Len(doc) : TokenClue(doc[k]) = c})
        \* doc is the annotation of the lower-cased text.
        ScoresOf(doc) ==
            [past    |-> 3 * CountClue(doc, "past")
                           + (IF Contains(text, <<"y", "e", "s", "t", "e", "r", "d", "a", "y">>) THEN 5 ELSE 0),
             present |-> 2 * CountClue(doc, "present")
                           + (IF Contains(text, <<"n", "o", "w">>) \/ Contains(text, <<"t", "o", "d", "a", "y">>)
                              THEN 3 ELSE 0),
             future  |-> 3 * CountClue(doc, "future")
                           + (IF Contains(text, <<"t", "o", "m", "o", "r", "r", "o", "w">>) THEN 5 ELSE 0)]
    IN  ScoresOf(nlp(lower(text)))

_detect_dominant_tense_last_wins(text) ==
    LET MaxClue(c) ==
            IF c.future >= c.present /\ c.future >= c.past THEN "future"
            ELSE IF c.present >= c.past THEN "present"
            ELSE "past"
    IN  MaxClue(TenseScores(text))

\* TenseConsistencyCorrector._detect_dominant_tense: max() returns the first
\* key of the largest score in the order past, present, future.
_detect_dominant_tense(text) ==
    LET MaxClue(c) ==
            IF c.past >= c.present /\ c.past >= c.future THEN "past"
            ELSE IF c.present >= c.future THEN "present"
            ELSE "future"
    IN  MaxClue(TenseScores(text))

\* TenseConsistencyCorrector._clean_spacing
_clean_spacing(text) == strip(CollapseMultiSpaces(DetachSpaceBefore(text, PunctChars)))

\* TenseConsistencyCorrector._compute_confidence, in thousandths: the value
\* 0.8 + (edits / verbs) * 0.2 capped at 1.0 and rounded to two decimals.
_compute_confidence(text, issues) ==
    LET VerbCount(doc) == Cardinality({k \in 1..Len(doc) : doc[k].pos = "VERB"})
        ConfidenceOf(verb_count, edits) ==
            IF verb_count = 0 THEN 1000
            ELSE IF 800 * verb_count + 200 * edits >= 1000 * verb_count THEN 1000
            ELSE 10 * ((2 * (800 * verb_count + 200 * edits) + 10 * verb_count)
                          \div (20 * verb_count))
    IN  ConfidenceOf(VerbCount(nlp(text)), Len(issues))

\* TenseConsistencyCorrector._empty_result
_empty_result(text) ==
    [corrected_text |-> text, issues_found |-> <<>>, dominant_tense |-> "present",
     confidence |-> 1000]

\* The loop of correct over the sentences (lines 69-74) from sentence k.
RECURSIVE FixSentences(_, _, _, _, _)
FixSentences(sentences, k, dominant, gf, lt) ==
    LET \* Lines 73-74: the sentence and its edits go in front of those of the
        \* sentences after it.
        Collect(one, rest) ==
            [sents |-> <<one.s>> \o rest.sents, issues |-> one.issues \o rest.issues]
    IN  IF k > Len(sentences) THEN [sents |-> <<>>, issues |-> <<>>]
        ELSE Collect(_fix_sentence(sentences[k], dominant, gf, lt),
                     FixSentences(sentences, k + 1, dominant, gf, lt))

\* TenseConsistencyCorrector.correct; gf is the state of the deep recheck and
\* lt the checker's outcome for this call.
Phase7Correct(text0, gf, lt) ==
    LET \* Lines 76-85.
        Result7(text, dominant, fixed) ==
            [corrected_text |-> _clean_spacing(JoinWith(<<" ">>, fixed.sents)),
             issues_found   |-> fixed.issues,
             dominant_tense |-> dominant,
             confidence     |-> _compute_confidence(text, fixed.issues)]
        \* Lines 66-85.
        FixAll(text, dominant) ==
            Result7(text, dominant, FixSentences(get_sentences(text), 1, dominant, gf, lt))
        \* Lines 60-85, text being preprocessed.
        Checked7(text) ==
            IF strip(text) = <<>> THEN _empty_result(text)
            ELSE FixAll(text, _detect_dominant_tense(text))
    IN  Checked7(preprocess_text(text0))
(***************************************************************************)
(* Phase 8: PronounAgreementCorrector                                      *)
(***************************************************************************)
\* self.PRONOUN_FORMS: base, nominative, objective, possessive.
PRONOUN_FORMS == { <<"he", <<"h", "e">>, <<"h", "i", "m">>, <<"h", "i", "s">>>>, <<"she", <<"s", "h", "e">>, <<"h", "e", "r">>, <<"h", "e", "r">>>>,
                   <<"it", <<"i", "t">>, <<"i", "t">>, <<"i", "t", "s">>>>, <<"they", <<"t", "h", "e", "y">>, <<"t", "h", "e", "m">>, <<"t", "h", "e", "i", "r">>>> }

SINGULAR_MALE == {<<"b", "o", "y">>, <<"m", "a", "n">>, <<"f", "a", "t", "h", "e", "r">>, <<"k", "i", "n", "g">>, <<"j", "o", "h", "n">>, <<"r", "a", "v", "i">>, <<"b", "r", "o", "t", "h", "e", "r">>, <<"u", "n", "c", "l", "e">>}

SINGULAR_FEMALE == {<<"g", "i", "r", "l">>, <<"w", "o", "m", "a", "n">>, <<"m", "o", "t", "h", "e", "r">>, <<"m", "a", "r", "y">>, <<"s", "i", "s", "t", "e", "r">>, <<"a", "u", "n", "t">>, <<"q", "u", "e", "e", "n">>}

SINGULAR_NEUTER == {<<"d", "o", "g">>, <<"b", "o", "o", "k">>, <<"c", "a", "r">>, <<"s", "h", "o", "p">>, <<"m", "a", "r", "k", "e", "t">>, <<"c", "i", "t", "y">>, <<"t", "e", "a", "m">>,
                       <<"c", "o", "m", "m", "i", "t", "t", "e", "e">>, <<"c", "h", "i", "l", "d">>, <<"s", "t", "u", "d", "e", "n", "t">>}

PLURAL == {<<"p", "e", "o", "p", "l", "e">>, <<"s", "t", "u", "d", "e", "n", "t", "s">>, <<"f", "r", "i", "e", "n", "d", "s">>, <<"c", "h", "i", "l", "d", "r", "e", "n">>, <<"p", "o", "l", "i", "c", "e">>, <<"d", "a", "t", "a">>, <<"t", "e", "a", "c", "h", "e", "r", "s">>}

\* The pronouns the stage looks at (line 57).
CheckedPronouns == {<<"h", "e">>, <<"s", "h", "e">>, <<"i", "t">>, <<"t", "h", "e", "y">>, <<"h", "i", "m">>, <<"h", "e", "r">>, <<"h", "i", "s">>, <<"i", "t", "s">>, <<"t", "h", "e", "m">>, <<"t", "h", "e", "i", "r">>}

\* The look-back limit of _find_antecedent (line 98).
AntecedentWindow == 20

\* PronounAgreementCorrector._find_antecedent for the pronoun at position p
\* (1-based): range(p.i - 1, max(-1, p.i - 20), -1) visits the 1-based
\* positions below p and above max(0, p - 20).  The result is a position,
\* 0 when there is no antecedent.
_find_antecedent(p, doc) ==
    LET lo   == IF p - AntecedentWindow > 0 THEN p - AntecedentWindow ELSE 0
        cand == {k \in (lo + 1)..(p - 1) : /\ doc[k].pos \in {"NOUN", "PROPN"}
                                           /\ doc[k].dep \notin {"pobj", "poss"}}
    IN  IF cand = {} THEN 0 ELSE Max(cand)

\* PronounAgreementCorrector._expected_pronoun; <<>> stands for None.
_expected_pronoun(a, p, doc) ==
    LET \* Lines 121-131: the base pronoun of the antecedent, ant being its
        \* lower-cased text.
        BaseFor(ant) ==
            IF ant \in SINGULAR_MALE THEN "he"
            ELSE IF ant \in SINGULAR_FEMALE THEN "she"
            ELSE IF ant \in SINGULAR_NEUTER THEN "it"
            ELSE IF ant \in PLURAL \/ doc[a].tag \in {"NNS", "NNPS"} THEN "they"
            ELSE IF doc[a].tag \in {"NNS", "NNPS"} THEN "they"
            ELSE "it"
        \* Lines 134-142: the column of PRONOUN_FORMS chosen for the
        \* lower-cased pronoun pron.
        FormColumn(pron, next_is_noun, prev_is_verb) ==
            IF pron \in {<<"h", "i", "s">>, <<"h", "e", "r">>, <<"i", "t", "s">>, <<"t", "h", "e", "i", "r">>} \/ next_is_noun THEN 4
            ELSE IF pron \in {<<"h", "i", "m">>, <<"h", "e", "r">>, <<"i", "t">>, <<"t", "h", "e", "m">>} \/ prev_is_verb THEN 3
            ELSE 2
        PronounForm(base, column) == (CHOOSE r \in PRONOUN_FORMS : r[1] = base)[column]
    IN  PronounForm(BaseFor(lower(doc[a].text)),
                    FormColumn(lower(doc[p].text),
                               p + 1 <= Len(doc) /\ doc[p + 1].pos = "NOUN",
                               p > 1 /\ doc[p - 1].pos = "VERB"))

\* What the loop of correct (lines 52-79) does with the token at position p:
\* the replacement text, or the token's own text when it is left alone.
PronounFix(p, doc) ==
    LET \* Lines 64-68: pron is the token's text in lower case and expected
        \* the form its antecedent requires.
        PronounRepl(pron, expected) ==
            IF expected = <<>> \/ lower(expected) = pron THEN doc[p].text
            ELSE IF Head(doc[p].text) \in UpperSet THEN capitalize(expected)
            ELSE expected
        \* Lines 52-68, a being the position of the antecedent (0: none).
        PronounAt(a) ==
            IF doc[p].pos # "PRON" \/ lower(doc[p].text) \notin CheckedPronouns \/ a = 0
            THEN doc[p].text
            ELSE PronounRepl(lower(doc[p].text), _expected_pronoun(a, p, doc))
    IN  PronounAt(_find_antecedent(p, doc))

\* The edits of the loop, in token order, from position p.
RECURSIVE PronounIssues(_, _)
PronounIssues(p, doc) ==
    LET \* Lines 71-78: the edit recorded when fixed differs from the token.
        PronounEdit(fixed) ==
            IF fixed # doc[p].text
            THEN <<[span |-> <<doc[p].idx, doc[p].idx + Len(doc[p].text)>>,
                    orig |-> doc[p].text, repl |-> fixed,
                    antecedent |-> doc[_find_antecedent(p, doc)].text,
                    confidence |-> 990, phase |-> 8]>>
            ELSE <<>>
    IN  IF p > Len(doc) THEN <<>>
        ELSE PronounEdit(PronounFix(p, doc)) \o PronounIssues(p + 1, doc)

\* PronounAgreementCorrector.correct
Phase8Correct(text) ==
    LET \* Lines 81-90.
        Result8(tokens, issues) ==
            [corrected_text |-> strip(CollapseMultiSpaces(
                                   DetachSpaceBefore(Join(tokens), {".", ",", "!", "?"}))),
             issues_found   |-> issues,
             confidence     |-> IF issues # <<>> THEN 990 ELSE 1000]
        \* Lines 48-90 over the annotated text.
        FixAll8(doc) ==
            Result8([p \in 1..Len(doc) |-> PronounFix(p, doc) \o doc[p].ws],
                    PronounIssues(1, doc))
    IN  IF strip(text) = <<>> THEN [corrected_text |-> text, issues_found |-> <<>>]
        ELSE FixAll8(nlp(text))

(***************************************************************************)
(* Phase 9: ConjunctionsCorrector                                          *)
(***************************************************************************)
\* ConjunctionsCorrector._is_contrast; p and c are lower-case sentences.
_is_contrast(p, c) ==
    LET neg_words      == {<<"n", "o", "t">>, <<"n", "o">>, <<"n", "e", "v", "e", "r">>, <<"n", "o", "n", "e">>, <<"h", "a", "r", "d", "l", "y">>, <<"r", "a", "r", "e", "l", "y">>}
        positive_words == {<<"g", "o", "o", "d">>, <<"h", "a", "p", "p", "y">>, <<"s", "u", "c", "c", "e", "s", "s">>, <<"e", "x", "c", "e", "l", "l", "e", "n", "t">>, <<"l", "o", "v", "e">>, <<"l", "i", "k", "e">>, <<"w", "i", "n">>}
        negative_words == {<<"b", "a", "d">>, <<"s", "a", "d">>, <<"f", "a", "i", "l">>, <<"h", "a", "t", "e">>, <<"l", "o", "s", "e">>, <<"p", "o", "o", "r">>}
    IN  \/ ContainsAny(p, positive_words) /\ ContainsAny(c, negative_words)
        \/ ContainsAny(p, negative_words) /\ ContainsAny(c, positive_words)
        \/ ContainsAny(p, neg_words) /\ ~ContainsAny(c, neg_words)
        \/ ~ContainsAny(p, neg_words) /\ ContainsAny(c, neg_words)

\* re.search(r"[.!?]$", s.strip()): besides the end of the string, $ also
\* matches before a final newline, which strip() has removed.
EndsWithTerminal(s) ==
    LET t == strip(s) IN t # <<>> /\ t[Len(t)] \in SentenceEnd

_choose_connector_sequence_first(prev, curr) ==
    LET Choose(p, c) ==
            IF ContainsAny(c, {<<"b", "e", "c", "a", "u", "s", "e">>, <<"s", "i", "n", "c", "e">>, <<"t", "h", "e", "r", "e", "f", "o", "r", "e">>, <<"h", "e", "n", "c", "e">>})
              THEN <<<<>>, "">>
            ELSE IF ContainsAny(p, {<<"f", "i", "r", "s", "t">>, <<"a", "f", "t", "e", "r">>, <<"b", "e", "f", "o", "r", "e">>, <<"l", "a", "t", "e", "r">>, <<"n", "e", "x", "t">>})
              THEN <<<<"t", "h", "e", "n">>, "sequence">>
            ELSE IF _is_contrast(p, c) THEN <<<<"b", "u", "t">>, "contrast">>
            ELSE IF ContainsAny(p, {<<"b", "e", "c", "a", "u", "s", "e">>, <<"s", "i", "n", "c", "e">>, <<"d", "u", "e", " ", "t", "o">>, <<"a", "s", " ", "a", " ", "r", "e", "s", "u", "l", "t">>})
              THEN <<<<"s", "o">>, "cause-result">>
            ELSE IF \/ ContainsAny(p, {<<"r", "e", "a", "s", "o", "n">>, <<"c", "a", "u", "s", "e">>})
                    \/ ContainsAny(c, {<<"r", "e", "s", "u", "l", "t">>, <<"t", "h", "e", "r", "e", "f", "o", "r", "e">>})
              THEN <<<<"t", "h", "e", "r", "e", "f", "o", "r", "e">>, "cause-result">>
            ELSE IF ContainsAny(c, {<<"t", "h", "e", "n">>, <<"a", "f", "t", "e", "r", "w", "a", "r", "d">>, <<"l", "a", "t", "e", "r">>, <<"f", "i", "n", "a", "l", "l", "y">>})
              THEN <<<<>>, "">>
            ELSE IF EndsWithTerminal(prev) THEN <<<<"a", "n", "d">>, "addition">>
            ELSE <<<<>>, "">>
    IN  Choose(lower(prev), lower(curr))

\* ConjunctionsCorrector._choose_connector: the pair <<connector, reason>>,
\* both empty when nothing is to be inserted.
_choose_connector(prev, curr) ==
    LET \* The tests on the lower-cased sentences p and c.
        Choose(p, c) ==
            IF ContainsAny(c, {<<"b", "e", "c", "a", "u", "s", "e">>, <<"s", "i", "n", "c", "e">>, <<"t", "h", "e", "r", "e", "f", "o", "r", "e">>, <<"h", "e", "n", "c", "e">>})
              THEN <<<<>>, "">>
            ELSE IF _is_contrast(p, c) THEN <<<<"b", "u", "t">>, "contrast">>
            ELSE IF ContainsAny(p, {<<"b", "e", "c", "a", "u", "s", "e">>, <<"s", "i", "n", "c", "e">>, <<"d", "u", "e", " ", "t", "o">>, <<"a", "s", " ", "a", " ", "r", "e", "s", "u", "l", "t">>})
              THEN <<<<"s", "o">>, "cause-result">>
            ELSE IF \/ ContainsAny(p, {<<"r", "e", "a", "s", "o", "n">>, <<"c", "a", "u", "s", "e">>})
                    \/ ContainsAny(c, {<<"r", "e", "s", "u", "l", "t">>, <<"t", "h", "e", "r", "e", "f", "o", "r", "e">>})
              THEN <<<<"t", "h", "e", "r", "e", "f", "o", "r", "e">>, "cause-result">>
            ELSE IF ContainsAny(p, {<<"f", "i", "r", "s", "t">>, <<"a", "f", "t", "e", "r">>, <<"b", "e", "f", "o", "r", "e">>, <<"l", "a", "t", "e", "r">>, <<"n", "e", "x", "t">>})
              THEN <<<<"t", "h", "e", "n">>, "sequence">>
            ELSE IF ContainsAny(c, {<<"t", "h", "e", "n">>, <<"a", "f", "t", "e", "r", "w", "a", "r", "d">>, <<"l", "a", "t", "e", "r">>, <<"f", "i", "n", "a", "l", "l", "y">>})
              THEN <<<<>>, "">>
            ELSE IF EndsWithTerminal(prev) THEN <<<<"a", "n", "d">>, "addition">>
            ELSE <<<<>>, "">>
    IN  Choose(lower(prev), lower(curr))

\* re.sub(r"\s*([!?.,;:])\s*", r"\1 ", s) for the marks in puncts: each mark
\* loses the whitespace around it and is followed by one blank.
RECURSIVE SpaceAfterPunct(_, _)
SpaceAfterPunct(s, puncts) ==
    IF s = <<>> THEN <<>>
    ELSE LET n == LeadingSpaces(s) IN
         IF n < Len(s) /\ s[n + 1] \in puncts
         THEN LET rest == SubSeq(s, n + 2, Len(s)) IN
              <<s[n + 1], " ">>
                  \o SpaceAfterPunct(SubSeq(rest, LeadingSpaces(rest) + 1, Len(rest)), puncts)
         ELSE IF n > 0
         THEN SubSeq(s, 1, n) \o SpaceAfterPunct(SubSeq(s, n + 1, Len(s)), puncts)
         ELSE <<Head(s)>> \o SpaceAfterPunct(Tail(s), puncts)

\* ConjunctionsCorrector._fix_spacing
_fix_spacing(text) ==
    LET t1 == DetachSpaceBefore(text, PunctChars)
        t2 == SpaceAfterPunct(t1, PunctChars)
        t3 == CollapseMultiSpaces(t2)
        t4 == SpaceAfterPunct(t3, {","})
        t5 == SpaceAfterPunct(t4, {"."})
    IN  strip(t5)

\* The loop of correct (lines 51-71) from sentence i (1-based, i >= 2):
\* enhanced is the list built so far.
RECURSIVE Connect(_, _, _, _)
Connect(sentences, i, enhanced, issues) ==
    LET \* Line 57: the connector as it is written after the previous sentence.
        ConnectorText(word) ==
            IF EndsWithTerminal(sentences[i - 1]) THEN capitalize(word) ELSE word
        \* Line 58: the sentence with the connector conn in front, unless it
        \* already starts with it.
        NewSentence(conn) ==
            IF ~startswith(lower(sentences[i]), conn)
            THEN <<" ">> \o conn \o <<",", " ">> \o sentences[i]
            ELSE <<" ">> \o sentences[i]
        \* Lines 59-68: new_sent is appended and the edit recorded.
        ConnectWith(conn, reason, new_sent) ==
            Connect(sentences, i + 1, Append(enhanced, new_sent),
                    Append(issues,
                           [span |-> <<Len(Join(enhanced)),
                                       Len(Join(enhanced)) + Len(new_sent)>>,
                            orig |-> <<>>, repl |-> conn, type |-> "connector",
                            reason |-> reason, confidence |-> 990]))
        ConnectConn(conn, reason) == ConnectWith(conn, reason, NewSentence(conn))
        \* Lines 55-71, choice being the result of _choose_connector.
        ConnectAt(choice) ==
            IF choice[1] # <<>>
            THEN ConnectConn(ConnectorText(choice[1]), choice[2])
            ELSE Connect(sentences, i + 1, Append(enhanced, <<" ">> \o sentences[i]), issues)
    IN  IF i > Len(sentences) THEN [enhanced |-> enhanced, issues |-> issues]
        ELSE ConnectAt(_choose_connector(sentences[i - 1], sentences[i]))

\* ConjunctionsCorrector.correct
Phase9Correct(text) ==
    LET \* Lines 73-81.
        Result9(done) ==
            [corrected_text |-> _fix_spacing(Join(done.enhanced)),
             issues_found   |-> done.issues,
             confidence     |-> IF done.issues # <<>> THEN 990 ELSE 1000]
        \* Lines 43-81 over the sentences of the text.
        ConnectAll(sentences) ==
            IF Len(sentences) < 2
              THEN [corrected_text |-> text, issues_found |-> <<>>, confidence |-> 1000]
            ELSE Result9(Connect(sentences, 2, <<sentences[1]>>, <<>>))
    IN  IF strip(text) = <<>> THEN [corrected_text |-> text, issues_found |-> <<>>]
        ELSE ConnectAll(Sentences(nlp(text)))
(***************************************************************************)
(* Phase 10: ArticleUsageCorrector                                         *)
(***************************************************************************)
ZERO_ARTICLE == {<<"h", "o", "m", "e">>, <<"s", "c", "h", "o", "o", "l">>, <<"c", "o", "l", "l", "e", "g", "e">>, <<"w", "o", "r", "k">>, <<"b", "e", "d">>, <<"c", "h", "u", "r", "c", "h">>,
                    <<"p", "r", "i", "s", "o", "n">>, <<"h", "o", "s", "p", "i", "t", "a", "l">>, <<"m", "a", "r", "k", "e", "t">>, <<"t", "o", "w", "n">>, <<"b", "r", "e", "a", "k", "f", "a", "s", "t">>,
                    <<"l", "u", "n", "c", "h">>, <<"d", "i", "n", "n", "e", "r">>, <<"c", "l", "a", "s", "s">>, <<"c", "o", "u", "r", "t">>, <<"p", "a", "r", "l", "i", "a", "m", "e", "n", "t">>}

THE_NOUNS == {<<"s", "u", "n">>, <<"m", "o", "o", "n">>, <<"e", "a", "r", "t", "h">>, <<"w", "o", "r", "l", "d">>, <<"i", "n", "t", "e", "r", "n", "e", "t">>, <<"g", "o", "v", "e", "r", "n", "m", "e", "n", "t">>,
                 <<"s", "k", "y">>, <<"s", "e", "a">>, <<"o", "c", "e", "a", "n">>, <<"p", "r", "e", "s", "i", "d", "e", "n", "t">>, <<"p", "r", "i", "m", "e", " ", "m", "i", "n", "i", "s", "t", "e", "r">>}

A_BEFORE_U == {<<"u", "n", "i", "v", "e", "r", "s", "i", "t", "y">>, <<"u", "s", "e", "r">>, <<"u", "n", "i", "t">>, <<"u", "k", "u", "l", "e", "l", "e">>, <<"u", "n", "i", "q", "u", "e">>, <<"u", "n", "i", "f", "o", "r", "m">>,
                  <<"e", "u", "r", "o", "p", "e", "a", "n">>, <<"u", "s", "e", "f", "u", "l">>}

AN_BEFORE_H == {<<"h", "o", "u", "r">>, <<"h", "o", "n", "e", "s", "t">>, <<"h", "o", "n", "o", "u", "r">>, <<"h", "e", "i", "r">>, <<"h", "o", "n", "o", "r">>}

UNCOUNTABLES == {<<"i", "n", "f", "o", "r", "m", "a", "t", "i", "o", "n">>, <<"a", "d", "v", "i", "c", "e">>, <<"w", "a", "t", "e", "r">>, <<"m", "o", "n", "e", "y">>, <<"m", "u", "s", "i", "c">>, <<"e", "q", "u", "i", "p", "m", "e", "n", "t">>,
                    <<"k", "n", "o", "w", "l", "e", "d", "g", "e">>}

\* The first letters of acronyms that take "an" (line 167).
AcronymAnLetters == {"A", "E", "F", "H", "I", "L", "M", "N", "O", "R", "S", "X"}

\* The words a preceding token may be for "the" not to be inserted (line 122).
TheBlockers == {<<"a">>, <<"a", "n">>, <<"t", "h", "e">>, <<"m", "y">>, <<"o", "u", "r">>, <<"h", "i", "s">>, <<"h", "e", "r">>, <<"t", "h", "e", "i", "r">>}

_choose_article_vowel_first(word) ==
    LET w == lower(strip(word)) IN
    IF w = <<>> THEN <<"a">>
    ELSE IF w \in AN_BEFORE_H THEN <<"a", "n">>
    ELSE IF Head(w) \in Vowels THEN <<"a", "n">>
    ELSE IF w \in A_BEFORE_U THEN <<"a">>
    ELSE IF Len(word) >= 2 /\ \A i \in 1..Len(word) : word[i] \in UpperSet
      THEN IF Head(word) \in AcronymAnLetters THEN <<"a", "n">> ELSE <<"a">>
    ELSE IF \E stem \in {<<"h", "o", "u", "r">>, <<"h", "o", "n", "e", "s", "t">>, <<"h", "o", "n", "o", "u", "r">>, <<"h", "o", "n", "o", "r">>, <<"h", "e", "i", "r">>} : startswith(w, stem)
      THEN <<"a", "n">>
    ELSE <<"a">>

\* ArticleUsageCorrector._choose_article
_choose_article(word) ==
    LET w == lower(strip(word)) IN
    IF w = <<>> THEN <<"a">>
    ELSE IF w \in AN_BEFORE_H THEN <<"a", "n">>
    ELSE IF w \in A_BEFORE_U THEN <<"a">>
    ELSE IF Len(word) >= 2 /\ \A i \in 1..Len(word) : word[i] \in UpperSet
      THEN IF Head(word) \in AcronymAnLetters THEN <<"a", "n">> ELSE <<"a">>
    ELSE IF Head(w) \in Vowels THEN <<"a", "n">>
    ELSE IF \E stem \in {<<"h", "o", "u", "r">>, <<"h", "o", "n", "e", "s", "t">>, <<"h", "o", "n", "o", "u", "r">>, <<"h", "o", "n", "o", "r">>, <<"h", "e", "i", "r">>} : startswith(w, stem)
      THEN <<"a", "n">>
    ELSE <<"a">>

\* Position of the first token after i that is neither whitespace nor
\* punctuation (lines 78-82), 0 when there is none.
NextWord(doc, i) ==
    LET after == {j \in (i + 1)..Len(doc) : ~doc[j].is_space /\ ~doc[j].is_punct} IN
    IF after = {} THEN 0 ELSE Min(after)

\* What the loop of correct (lines 70-137) does with the token at position i:
\* the new entry of tokens and the edit recorded, if any.
ArticleStep(doc, i) ==
    LET \* The entry of a token the loop leaves alone.
        Keep == [entry |-> text_with_ws(doc[i]), issues |-> <<>>]
        \* Lines 83-117: the article (lword in lower case) in front of the
        \* word next, whose lower-cased lemma is next_lemma and whose article
        \* by _choose_article is correct_article.
        ArticleBefore(lword, next, next_lemma, correct_article) ==
            IF next.pos \notin {"NOUN", "ADJ"} THEN Keep
            ELSE IF next_lemma \in ZERO_ARTICLE
              THEN [entry  |-> <<>>,
                    issues |-> <<[phase |-> 10, type |-> "zero_article_removed",
                                  orig |-> doc[i].text, noun |-> next_lemma,
                                  confidence |-> 970]>>]
            ELSE IF next_lemma \in UNCOUNTABLES
              THEN [entry  |-> <<>>,
                    issues |-> <<[phase |-> 10, type |-> "uncountable_article_removed",
                                  orig |-> doc[i].text, noun |-> next_lemma,
                                  confidence |-> 960]>>]
            ELSE IF correct_article # lword
              THEN [entry  |-> correct_article \o doc[i].ws,
                    issues |-> <<[phase |-> 10, type |-> "a_an_fixed",
                                  orig |-> doc[i].text, repl |-> correct_article,
                                  noun |-> next_lemma, confidence |-> 980]>>]
            ELSE Keep
        \* Lines 74-137, lword being the token's lower-cased text and j the
        \* position of the next word (0: none).
        ArticleWord(lword, j) ==
            IF lword \in {<<"a">>, <<"a", "n">>}
              THEN IF j = 0 THEN Keep
                   ELSE ArticleBefore(lword, doc[j], lower(doc[j].lemma),
                                      _choose_article(doc[j].text))
            ELSE IF lword \in THE_NOUNS
              THEN IF i = 1 \/ lower(doc[i - 1].text) \notin TheBlockers
                   THEN [entry  |-> <<"t", "h", "e", " ">> \o doc[i].text \o doc[i].ws,
                         issues |-> <<[phase |-> 10, type |-> "insert_the_unique",
                                       repl |-> <<"t", "h", "e">>, noun |-> lword,
                                       confidence |-> 970]>>]
                   ELSE Keep
            ELSE IF lword = <<"r", "a", "i", "n">> /\ i > 1
              THEN IF lower(doc[i - 1].text) \in {<<"i", "f">>, <<"w", "h", "e", "n">>, <<"u", "n", "l", "e", "s", "s">>}
                   THEN [entry  |-> <<"t", "h", "e", " ">> \o doc[i].text \o doc[i].ws,
                         issues |-> <<[phase |-> 10, type |-> "insert_the_rain",
                                       repl |-> <<"t", "h", "e">>, confidence |-> 960]>>]
                   ELSE Keep
            ELSE Keep
    IN  IF doc[i].is_punct \/ doc[i].is_space THEN Keep
        ELSE ArticleWord(lower(doc[i].text), NextWord(doc, i))

\* The outcomes of the loop for the tokens from position i, in token order.
RECURSIVE ArticleSteps(_, _)
ArticleSteps(doc, i) ==
    IF i > Len(doc) THEN <<>>
    ELSE <<ArticleStep(doc, i)>> \o ArticleSteps(doc, i + 1)

\* re.sub(r"\b(in|to|from|towards)\s+(east|west|north|south)\b", "\1 the \2",
\* s, flags=re.I) over the pieces of s.
RECURSIVE DirectionThe(_)
DirectionThe(ps) ==
    IF ps = <<>> THEN <<>>
    ELSE IF /\ PairAtHead(ps)
            /\ lower(ps[1]) \in {<<"i", "n">>, <<"t", "o">>, <<"f", "r", "o", "m">>, <<"t", "o", "w", "a", "r", "d", "s">>}
            /\ lower(ps[3]) \in {<<"e", "a", "s", "t">>, <<"w", "e", "s", "t">>, <<"n", "o", "r", "t", "h">>, <<"s", "o", "u", "t", "h">>}
         THEN ps[1] \o <<" ", "t", "h", "e", " ">> \o ps[3] \o DirectionThe(SubSeq(ps, 4, Len(ps)))
         ELSE Head(ps) \o DirectionThe(Tail(ps))

\* Number of leading blanks (the character " " only) of s.
RECURSIVE LeadingBlanks(_)
LeadingBlanks(s) == IF s = <<>> \/ Head(s) # " " THEN 0 ELSE 1 + LeadingBlanks(Tail(s))

\* Length of the match of \b([Aa])n? +([Hh])[aeiou] that starts at position
\* i of s, 0 when there is none.
SmoothMatch(s, i) ==
    LET boundary == i = 1 \/ ~IsWordChar(s[i - 1])
        opt_n    == IF i < Len(s) /\ s[i + 1] = "n" THEN 1 ELSE 0
        rest     == SubSeq(s, i + 1 + opt_n, Len(s))
        blanks   == LeadingBlanks(rest)
        h        == i + opt_n + blanks + 1
    IN  IF /\ s[i] \in {"a", "A"} /\ boundary
           /\ blanks >= 1
           /\ h + 1 <= Len(s)
           /\ s[h] \in {"h", "H"}
           /\ s[h + 1] \in Vowels
        THEN h + 1 - i + 1 ELSE 0

\* re.sub(r"\b([Aa])n? +([Hh])[aeiou]", r"\1n \2", s) from position i: the
\* replacement keeps the article letter and the h and nothing else.
RECURSIVE Smooth(_, _)
Smooth(s, i) ==
    IF i > Len(s) THEN <<>>
    ELSE LET n == SmoothMatch(s, i) IN
         IF n > 0 THEN <<s[i], "n", " ", s[i + n - 2]>> \o Smooth(s, i + n)
         ELSE <<s[i]>> \o Smooth(s, i + 1)

\* ArticleUsageCorrector.correct; lt is the checker's outcome.
Phase10Correct(text0, lt) ==
    LET \* Lines 57-62: the edit recorded when the checker changed text1.
        LtEdit(text1, text) ==
            IF text # text1
            THEN <<[phase |-> 10, type |-> "LT", orig |-> text1, repl |-> text,
                    confidence |-> 980]>>
            ELSE <<>>
        \* Lines 140-146: the clean-up of the joined tokens.
        ArticleCleanup(joined) ==
            strip(Smooth(DirectionThe(Pieces(CollapseMultiSpaces(
                      DetachSpaceBefore(joined, PunctChars)))), 1))
        \* Lines 148-150.
        Result10(result, issues) ==
            [corrected_text |-> result,
             issues_found   |-> issues,
             confidence     |-> IF issues # <<>> THEN 990 ELSE 1000]
        \* Lines 139-150; steps are the outcomes of the loop.
        Finish10(steps, lt_issues) ==
            Result10(ArticleCleanup(Join([i \in 1..Len(steps) |-> steps[i].entry])),
                     lt_issues \o Join([i \in 1..Len(steps) |-> steps[i].issues]))
        \* Lines 66-150; text is the text after the checker.
        Refine(text1, text) == Finish10(ArticleSteps(nlp(text), 1), LtEdit(text1, text))
        \* Lines 50-150, text1 being preprocessed.
        Checked10(text1) ==
            IF strip(text1) = <<>>
              THEN [corrected_text |-> text1, issues_found |-> <<>>, confidence |-> 1000]
            ELSE Refine(text1, IF lt = "raise" THEN text1 ELSE tool_correct(text1, lt))
    IN  Checked10(preprocess_text(text0))
(***************************************************************************)
(* The orchestrator: GrammarPipeline                                       *)
(***************************************************************************)
\* self.phases (lines 62-68): the class names, phase i at position i - 5.
phases == <<"SubjectVerbAgreementCorrector", "TenseConsistencyCorrector",
            "PronounAgreementCorrector", "ConjunctionsCorrector",
            "ArticleUsageCorrector">>

FirstPhase == 6

LastPhase == FirstPhase + Len(phases) - 1

\* The phases whose correct() calls the checker service.
UsesChecker == {6, 7, 10}

\* phase.correct(text) of phase i; gf is the state of the deep recheck of the
\* Tense stage and lt the answer of the checker during the call.
correct(i, text, gf, lt) ==
    CASE i = 6  -> Phase6Correct(text, lt)
      [] i = 7  -> Phase7Correct(text, gf, lt)
      [] i = 8  -> Phase8Correct(text)
      [] i = 9  -> Phase9Correct(text)
      [] i = 10 -> Phase10Correct(text, lt)

\* dict.get that never finds the key.
Get_misses(d, key, default) == default

\* dict.get(key, default)
Get(d, key, default) == IF key \in DOMAIN d THEN d[key] ELSE default

\* dict.setdefault mistaken for an assignment d[key] = value.
setdefault_overwrites(d, key, value) ==
    [k \in DOMAIN d \cup {key} |-> IF k = key THEN value ELSE d[k]]

\* dict.setdefault(key, value): the dictionary afterwards.
setdefault(d, key, value) == IF key \in DOMAIN d THEN d ELSE d @@ (key :> value)

\* The default confidence of an edit (lines 101 and 114).
DefaultConfidence == 950

\* Lines 99-101: the edit as appended to all_edits by phase i.
TagEdit(edit, i) ==
    setdefault(setdefault(setdefault(edit, "phase", i),
                          "phase_name", phases[i - FirstPhase + 1]),
               "confidence", DefaultConfidence)

\* The loop body with "break" in the place of "continue" in the handler.
LoopBody_breaks(i, current, all_edits, result) ==
    IF IsRaised(result)
    THEN [current |-> current, all_edits |-> all_edits, next |-> LastPhase + 1,
          escaped |-> FALSE]
    ELSE LET issues == Get(result, "issues_found", <<>>) IN
         [current   |-> Get(result, "corrected_text", current),
          all_edits |-> all_edits \o [k \in 1..Len(issues) |-> TagEdit(issues[k], i)],
          next      |-> i + 1,
          escaped   |-> FALSE]

\* The body of the for loop (lines 86-109) for phase i, given what
\* phase.correct(current) did: result is its return value or Raised.  The
\* outcome is the text and the edits after the iteration, the phase the loop
\* goes on with, and whether an exception left run().
LoopBody(i, current, all_edits, result) ==
    IF IsRaised(result)
    THEN [current |-> current, all_edits |-> all_edits, next |-> i + 1, escaped |-> FALSE]
    ELSE LET issues == Get(result, "issues_found", <<>>) IN
         [current   |-> Get(result, "corrected_text", current),
          all_edits |-> all_edits \o [k \in 1..Len(issues) |-> TagEdit(issues[k], i)],
          next      |-> i + 1,
          escaped   |-> FALSE]

\* The guard written as "not text".
IsBlank_empty_only(text) == text = <<>>

\* The guard of line 74: not text.strip()
IsBlank(text) == strip(text) = <<>>

\* The result of line 76.
ShortCircuit ==
    [corrected_text |-> <<>>, total_fixed |-> 0, confidence_avg |-> 1000, edits |-> <<>>]

\* sum(e.get("confidence", 0.95) for e in edits), in thousandths.
RECURSIVE ConfidenceSum(_)
ConfidenceSum(edits) ==
    IF edits = <<>> THEN 0
    ELSE Get(Head(edits), "confidence", DefaultConfidence) + ConfidenceSum(Tail(edits))

\* The mean cut off after three decimals instead of rounded.
avg_confidence_truncated(all_edits) ==
    IF Len(all_edits) = 0 THEN {1000}
    ELSE {ConfidenceSum(all_edits) \div Len(all_edits)}

\* Lines 113-116: round(sum / len, 3), or 1.0 without edits, in thousandths.
\* The quotient is rounded to the nearest thousandth; when it lies exactly
\* half-way the floating-point value decides, and both neighbours are given.
avg_confidence(all_edits) ==
    LET n   == Len(all_edits)
        sum == ConfidenceSum(all_edits)
        q   == sum \div n
        r   == sum % n
    IN  IF n = 0 THEN {1000}
        ELSE IF 2 * r < n THEN {q}
        ELSE IF 2 * r > n THEN {q + 1}
        ELSE {q, q + 1}

\* The trace with the argument text in the place of current.strip().
final_output_echoes_input(text, current, all_edits, avg) ==
    [input_text     |-> text,
     corrected_text |-> text,
     total_fixed    |-> Len(all_edits),
     confidence_avg |-> avg,
     edits          |-> all_edits]

\* Lines 120-130: the trace returned by run().  The run identifier, the
\* timestamp, the runtime and the f1 score derived from avg are left out.
final_output(text, current, all_edits, avg) ==
    [input_text     |-> text,
     corrected_text |-> strip(current),
     total_fixed    |-> Len(all_edits),
     confidence_avg |-> avg,
     edits          |-> all_edits]

\* Writing the JSON file without the try/except around it.
SaveEscapes_uncaught(save_fails) == save_fails

\* Lines 133-140: writing the JSON file; a failure is caught, so no
\* exception leaves run() either way.
SaveEscapes(save_fails) == FALSE


\* The two annotator handles of the program: the one __init__ loads and
\* hands to the five stage constructors (pipeline.py 45-51, 63-67), and the
\* module-level one of utils, which get_spacy_model loads with spacy.load at
\* its first call and returns from then on (utils.py 117-129).
self_nlp == "self.nlp"

get_spacy_model == "utils._nlp"

\* The handles that the annotation requests of stage i's correct(text) go
\* to.  A blank text returns before any request; the Tense stage annotates
\* with self.nlp (lines 89, 133, 210) and splits the text into sentences
\* with utils.get_sentences (line 66), which annotates with
\* get_spacy_model() (utils.py 135); the other stages use self.nlp only.
AnnotatorsUsed(i, text) ==
    CASE i \in {6, 10} ->
           IF strip(preprocess_text(text)) = <<>> THEN {} ELSE {self_nlp}
      [] i = 7 ->
           IF strip(preprocess_text(text)) = <<>> THEN {}
           ELSE {self_nlp, get_spacy_model}
      [] OTHER ->
           IF strip(text) = <<>> THEN {} ELSE {self_nlp}
(***************************************************************************)
(* The texts run() and correct() are applied to.                           *)
(***************************************************************************)
\* Largest number of blanks added before and after a text.
MaxPad == 1

Corpus ==
    {<<"T", "h", "e", " ", "c", "a", "t", " ", "s", "l", "e", "e", "p", "s", ".">>,
        <<"S", "h", "e", " ", "w", "i", "l", "l", " ", "g", "o", " ", "t", "o", "m", "o", "r", "r", "o", "w", ".">>,
        <<"T", "h", "e", "y", " ", "w", "i", "l", "l", " ", "g", "o", " ", "t", "o", "m", "o", "r", "r", "o", "w", ".">>,
        <<"T", "h", "e", " ", "c", "a", "t", " ", "s", "l", "e", "e", "p", "s", ".", " ", "T", "h", "e", " ", "d", "o", "g", " ", "b", "a", "r", "k", "s", ".">>,
        <<"T", "h", "e", " ", "t", "e", "a", "m", " ", "w", "i", "n", ".">>,
        <<"t", "h", "e", " ", "d", "o", "g", "s", " ", "b", "a", "r", "k", "s">>,
        <<"S", "h", "e", " ", "i", "s", " ", "a", " ", "e", "n", "g", "i", "n", "e", "e", "r", ".">>,
        <<"M", "a", "r", "y", " ", "s", "a", "w", " ", "s", "h", "e", ".">>,
        <<"H", "e", " ", "i", "s", " ", "r", "i", "c", "h", ".", " ", "H", "e", " ", "i", "s", " ", "n", "o", "t", " ", "h", "a", "p", "p", "y", ".">>,
        <<"H", "e", " ", "g", "o", " ", "y", "e", "s", "t", "e", "r", "d", "a", "y", ".">>,
        <<"S", "h", "e", " ", "w", "i", "l", "l", " ", "g", "o", " ", "t", "o", "m", "o", "r", "r", "o", "w", ".", " ", "S", "h", "e", " ", "w", "i", "l", "l", " ", "w", "i", "n", ".">>}

Blanks(n) == [k \in 1..n |-> " "]

Padded == {Blanks(l) \o t \o Blanks(r) : l \in 0..MaxPad, r \in 0..MaxPad, t \in Corpus}

BlankTexts == {<<>>, <<"\t">>, <<"\n", " ">>} \cup {Blanks(n) : n \in 1..(MaxPad + 1)}

InputTexts == Padded \cup BlankTexts

\* Texts given to one stage directly.
StageCorpus ==
    {<<"T", "h", "e", " ", "c", "a", "t", " ", "s", "l", "e", "e", "p", "s", " ", ".">>,
        <<"T", "h", "e", " ", "t", "e", "a", "m", " ", "w", "i", "n", ".", " ", "T", "h", "e", " ", "d", "o", "g", "s", " ", "b", "a", "r", "k", "s", ".">>,
        <<"E", "a", "c", "h", " ", "o", "f", " ", "t", "h", "e", " ", "d", "o", "g", "s", " ", "b", "a", "r", "k", ".">>,
        <<"E", "a", "c", "h", " ", "o", "f", " ", "s", "o", "m", "e", " ", "o", "f", " ", "t", "h", "e", " ", "d", "o", "g", "s", " ", "b", "a", "r", "k", ".">>,
        <<"S", "o", "m", "e", " ", "o", "f", " ", "t", "h", "e", " ", "d", "o", "g", "s", " ", "b", "a", "r", "k", "s", ".">>,
        <<"T", "h", "e", " ", "s", "t", "a", "f", "f", " ", "s", "l", "e", "e", "p", "s", ".">>,
        <<"T", "h", "e", " ", "t", "e", "a", "m", " ", "W", "I", "N", ".">>,
        <<"I", "t", " ", "t", "o", "o", "k", " ", "a", " ", "h", "o", "u", "r", ".">>,
        <<"S", "h", "e", " ", "i", "s", " ", "a", "n", " ", "h", "o", "n", "e", "s", "t", " ", "e", "n", "g", "i", "n", "e", "e", "r", ".">>,
        <<"H", "e", " ", "s", "a", "w", " ", "a", "n", " ", "u", "s", "e", "r", ".">>,
        <<"S", "h", "e", " ", "h", "a", "s", " ", "a", " ", "M", "B", "A", ".">>,
        <<"H", "e", " ", "s", "a", "w", " ", "a", "n", " ", "U", "F", "O", ".">>,
        <<"I", "t", " ", "i", "s", " ", "a", " ", "h", "o", "n", "e", "s", "t", "y", ".">>,
        <<"H", "e", " ", "s", "a", "w", " ", "a", "n", " ", "c", "a", "t", ".">>,
        <<"H", "e", " ", "s", "a", "w", " ", "a", "n", " ", "M", "B", "A", ".">>,
        <<"Y", "o", "u", "r", " ", "s", "u", "n", " ", "i", "s", " ", "r", "i", "c", "h", ".">>,
        <<"H", "e", " ", "i", "s", " ", "r", "i", "c", "h", ".", " ", "B", "u", "t", " ", "h", "e", " ", "i", "s", " ", "n", "o", "t", " ", "h", "a", "p", "p", "y", ".">>,
        <<"H", "i", "m", " ", "w", "e", "n", "t", " ", "t", "o", " ", "t", "h", "e", " ", "s", "t", "o", "r", "e", ".">>,
        <<"S", "h", "e", " ", "w", "a", "s", " ", "s", "l", "e", "e", "p", "i", "n", "g", ".">>}

StageTexts == InputTexts \cup StageCorpus

(***************************************************************************)
(* One pipeline instance and one call of run(text).                        *)
(*   pc         position of the call: "idle" before it, "loop" inside the  *)
(*              for loop and the metrics, "returned" after the return,     *)
(*              "raised" if an exception left run()                        *)
(*   input_text the argument text                                          *)
(*   current, all_edits, phase   the locals current, all_edits and i       *)
(*   output     the value returned                                         *)
(*   saved      what became of the JSON file                               *)
(*   calls      history: one entry per call of a stage's correct()         *)
(***************************************************************************)
VARIABLES pc, input_text, current, all_edits, phase, output, saved, calls

vars == <<pc, input_text, current, all_edits, phase, output, saved, calls>>

NoOutput == [pending |-> TRUE]

\* The history entry of one call of correct(): its argument and what it
\* returned.
CallEntry(i, arg, result) ==
    [phase  |-> i,
     arg    |-> arg,
     raised |-> IsRaised(result),
     fields |-> IF IsRaised(result) THEN {} ELSE DOMAIN result,
     text   |-> IF IsRaised(result) THEN <<>> ELSE result.corrected_text,
     issues |-> IF IsRaised(result) THEN <<>> ELSE result.issues_found]

Init ==
    /\ pc = "idle"
    /\ input_text = <<>>
    /\ current = <<>>
    /\ all_edits = <<>>
    /\ phase = FirstPhase
    /\ output = NoOutput
    /\ saved = "no"
    /\ calls = <<>>

\* run(text) on empty or whitespace-only text (lines 74-76).
RunBlank(text) ==
    /\ pc = "idle"
    /\ IsBlank(text)
    /\ input_text' = text
    /\ output' = ShortCircuit
    /\ pc' = "returned"
    /\ UNCHANGED <<current, all_edits, phase, saved, calls>>

\* run(text) up to the for loop (lines 78-80).
RunStart(text) ==
    /\ pc = "idle"
    /\ ~IsBlank(text)
    /\ input_text' = text
    /\ current' = strip(text)
    /\ all_edits' = <<>>
    /\ phase' = FirstPhase
    /\ pc' = "loop"
    /\ UNCHANGED <<output, saved, calls>>

\* The iteration with all_edits emptied at the top of the loop body.
Iterate_resets_edits(result) ==
    LET body == LoopBody(phase, current, <<>>, result) IN
    /\ current' = body.current
    /\ all_edits' = body.all_edits
    /\ phase' = body.next
    /\ pc' = IF body.escaped THEN "raised" ELSE "loop"
    /\ calls' = Append(calls, CallEntry(phase, current, result))
    /\ UNCHANGED <<input_text, output, saved>>

\* One iteration of the for loop, given what correct() did.
Iterate(result) ==
    LET body == LoopBody(phase, current, all_edits, result) IN
    /\ current' = body.current
    /\ all_edits' = body.all_edits
    /\ phase' = body.next
    /\ pc' = IF body.escaped THEN "raised" ELSE "loop"
    /\ calls' = Append(calls, CallEntry(phase, current, result))
    /\ UNCHANGED <<input_text, output, saved>>

\* An iteration in which phase.correct(current) raises.
PhaseRaises ==
    /\ pc = "loop"
    /\ phase <= LastPhase
    /\ Iterate(Raised)

\* An iteration in which phase.correct(current) runs to its end (or raises
\* on its own).  The stage objects live for one run, in which the Tense
\* stage is called once, so the state of its deep recheck is drawn here.
PhaseRuns(gf, lt) ==
    /\ pc = "loop"
    /\ phase <= LastPhase
    /\ phase \notin UsesChecker => lt = "same"
    /\ phase # 7 => gf = "none"
    /\ Iterate(correct(phase, current, gf, lt))

\* The metrics, the trace, the JSON file and the return (lines 113-148).
Finish(save_fails) ==
    /\ pc = "loop"
    /\ phase > LastPhase
    /\ \E avg \in avg_confidence(all_edits) :
           output' = final_output(input_text, current, all_edits, avg)
    /\ saved' = IF save_fails THEN "failed" ELSE "ok"
    /\ pc' = IF SaveEscapes(save_fails) THEN "raised" ELSE "returned"
    /\ UNCHANGED <<input_text, current, all_edits, phase, calls>>

Next ==
    \/ \E text \in InputTexts : RunBlank(text)
    \/ \E text \in InputTexts : RunStart(text)
    \/ PhaseRaises
    \/ \E gf \in GfModes, lt \in CheckerOutcomes : PhaseRuns(gf, lt)
    \/ \E save_fails \in BOOLEAN : Finish(save_fails)

Spec == Init /\ [][Next]_vars

\* The steps inside a call of run().  run() is sequential code: once
\* entered, its next statement is executed.
RunStep ==
    \/ PhaseRaises
    \/ \E gf \in GfModes, lt \in CheckerOutcomes : PhaseRuns(gf, lt)
    \/ \E save_fails \in BOOLEAN : Finish(save_fails)

FairSpec == Spec /\ WF_vars(RunStep)

(***************************************************************************)
(* One stage object and one direct call of its correct(text), on any text, *)
(* blank ones included (run() itself never hands a blank text to a stage). *)
(* The call is recorded in calls; pc goes from "stage" to "stage_done".    *)
(***************************************************************************)
StageInit ==
    /\ pc = "stage"
    /\ input_text = <<>>
    /\ current = <<>>
    /\ all_edits = <<>>
    /\ phase = FirstPhase
    /\ output = NoOutput
    /\ saved = "no"
    /\ calls = <<>>

\* What a direct call of a stage's correct(text) leaves behind: the entry of
\* CallEntry together with the reply of the external tools and the returned
\* confidence (0 when the call raised or returned none).
StageEntry(i, arg, gf, lt, result) ==
    [phase      |-> i,
     arg        |-> arg,
     gf         |-> gf,
     lt         |-> lt,
     raised     |-> IsRaised(result),
     fields     |-> IF IsRaised(result) THEN {} ELSE DOMAIN result,
     text       |-> IF IsRaised(result) THEN <<>> ELSE result.corrected_text,
     issues     |-> IF IsRaised(result) THEN <<>> ELSE result.issues_found,
     confidence |-> IF IsRaised(result) THEN 0
                    ELSE IF "confidence" \in DOMAIN result THEN result.confidence
                    ELSE 0]

StageCall(i, text, gf, lt) ==
    /\ pc = "stage"
    /\ i \notin UsesChecker => lt = "same"
    /\ i # 7 => gf = "none"
    /\ input_text' = text
    /\ phase' = i
    /\ calls' = <<StageEntry(i, text, gf, lt, correct(i, text, gf, lt))>>
    /\ pc' = "stage_done"
    /\ UNCHANGED <<current, all_edits, output, saved>>

\* The same stage called a second time, on the text its first call returned,
\* the external tools answering as they did in the first call.
StageRepeat ==
    /\ pc = "stage_done"
    /\ ~calls[1].raised
    /\ calls' = Append(calls, StageEntry(phase, calls[1].text, calls[1].gf, calls[1].lt,
                                         correct(phase, calls[1].text,
                                                 calls[1].gf, calls[1].lt)))
    /\ pc' = "stage_again"
    /\ UNCHANGED <<input_text, current, all_edits, phase, output, saved>>

\* The subject-number decision of the agreement stage (phase 6, lines
\* 98-128) for every verb of the text that has a subject: the subject word
\* and the text of its subtree, both in lower case, its fine tag and the
\* number decided.
SubjectNumberCall(text) ==
    LET SubjectsOf(doc) ==
            {Min(SubjectChildren(doc, k)) :
                k \in {v \in 1..Len(doc) :
                          /\ doc[v].pos = "VERB"
                          /\ doc[v].dep \in {"ROOT", "aux", "auxpass", "csubj", "csubjpass"}
                          /\ SubjectChildren(doc, v) # {}}}
        LowerTexts(sub) == JoinWith(<<" ">>, [k \in 1..Len(sub) |-> lower(sub[k].text)])
        Decisions(doc) ==
            {[subject |-> lower(doc[j].text),
              subtree |-> LowerTexts(subtree(doc, j)),
              tag     |-> doc[j].tag,
              number  |-> SubjectNumber(doc, j)] : j \in SubjectsOf(doc)}
    IN  /\ pc = "stage"
        /\ input_text' = text
        /\ phase' = 6
        /\ calls' = <<[arg |-> text, numbers |-> Decisions(nlp(strip(preprocess_text(text))))]>>
        /\ pc' = "number_done"
        /\ UNCHANGED <<current, all_edits, output, saved>>

\* Sentences given to _choose_connector as previous and current sentence.
PreviousSentences ==
    {<<"H", "e", " ", "i", "s", " ", "r", "i", "c", "h", ".">>, <<"H", "e", " ", "i", "s", " ", "n", "o", "t", " ", "h", "a", "p", "p", "y", ".">>, <<"H", "e", " ", "l", "e", "f", "t", " ", "b", "e", "c", "a", "u", "s", "e", " ", "i", "t", " ", "r", "a", "i", "n", "e", "d", ".">>,
        <<"T", "h", "a", "t", " ", "w", "a", "s", " ", "t", "h", "e", " ", "r", "e", "a", "s", "o", "n", ".">>, <<"F", "i", "r", "s", "t", " ", "h", "e", " ", "a", "t", "e", ".">>, <<"H", "e", " ", "a", "t", "e">>, <<"H", "e", " ", "d", "i", "d", " ", "n", "o", "t", " ", "e", "a", "t", " ", "f", "i", "r", "s", "t", ".">>}

CurrentSentences ==
    {<<"H", "e", " ", "i", "s", " ", "r", "i", "c", "h", ".">>, <<"H", "e", " ", "l", "e", "f", "t", " ", "s", "i", "n", "c", "e", " ", "i", "t", " ", "r", "a", "i", "n", "e", "d", ".">>, <<"H", "e", " ", "s", "l", "e", "p", "t", " ", "l", "a", "t", "e", "r", ".">>,
        <<"T", "h", "e", "n", " ", "h", "e", " ", "s", "l", "e", "p", "t", ".">>, <<"T", "h", "e", " ", "r", "e", "s", "u", "l", "t", " ", "w", "a", "s", " ", "k", "n", "o", "w", "n", ".">>, <<"H", "e", " ", "i", "s", " ", "n", "o", "t", " ", "h", "a", "p", "p", "y", ".">>}

\* One call of _choose_connector(prev, curr).
ConnectorCall(prev, curr) ==
    /\ pc = "stage"
    /\ input_text' = prev \o <<" ">> \o curr
    /\ phase' = 9
    /\ calls' = <<[prev      |-> prev,
                   curr      |-> curr,
                   connector |-> _choose_connector(prev, curr)[1],
                   reason    |-> _choose_connector(prev, curr)[2]]>>
    /\ pc' = "connector_done"
    /\ UNCHANGED <<current, all_edits, output, saved>>

\* Texts whose pronoun has its only noun 19, 20 and 21 tokens before it, and
\* texts with a nearer one.
AntecedentTexts ==
    {<<"M", "a", "r", "y", " ", "i", "s", " ", "v", "e", "r", "y", " ", "v", "e", "r", "y", " ", "v", "e", "r", "y", " ", "v", "e", "r", "y", " ", "v", "e", "r", "y", " ", "v", "e", "r", "y", " ", "v", "e", "r", "y", " ", "v", "e", "r", "y", " ", "v", "e", "r", "y", " ", "v", "e", "r", "y", " ", "v", "e", "r", "y", " ", "v", "e", "r", "y", " ", "v", "e", "r", "y", " ", "v", "e", "r", "y", " ", "v", "e", "r", "y", " ", "h", "a", "p", "p", "y", " ", "b", "e", "c", "a", "u", "s", "e", " ", "h", "e", " ", "w", "o", "n", ".">>,
        <<"M", "a", "r", "y", " ", "i", "s", " ", "v", "e", "r", "y", " ", "v", "e", "r", "y", " ", "v", "e", "r", "y", " ", "v", "e", "r", "y", " ", "v", "e", "r", "y", " ", "v", "e", "r", "y", " ", "v", "e", "r", "y", " ", "v", "e", "r", "y", " ", "v", "e", "r", "y", " ", "v", "e", "r", "y", " ", "v", "e", "r", "y", " ", "v", "e", "r", "y", " ", "v", "e", "r", "y", " ", "v", "e", "r", "y", " ", "v", "e", "r", "y", " ", "v", "e", "r", "y", " ", "h", "a", "p", "p", "y", " ", "b", "e", "c", "a", "u", "s", "e", " ", "h", "e", " ", "w", "o", "n", ".">>,
        <<"M", "a", "r", "y", " ", "i", "s", " ", "v", "e", "r", "y", " ", "v", "e", "r", "y", " ", "v", "e", "r", "y", " ", "v", "e", "r", "y", " ", "v", "e", "r", "y", " ", "v", "e", "r", "y", " ", "v", "e", "r", "y", " ", "v", "e", "r", "y", " ", "v", "e", "r", "y", " ", "v", "e", "r", "y", " ", "v", "e", "r", "y", " ", "v", "e", "r", "y", " ", "v", "e", "r", "y", " ", "v", "e", "r", "y", " ", "v", "e", "r", "y", " ", "v", "e", "r", "y", " ", "v", "e", "r", "y", " ", "h", "a", "p", "p", "y", " ", "b", "e", "c", "a", "u", "s", "e", " ", "h", "e", " ", "w", "o", "n", ".">>,
        <<"M", "a", "r", "y", " ", "s", "a", "w", " ", "s", "h", "e", ".">>,
        <<"T", "h", "e", " ", "d", "o", "g", "s", " ", "o", "f", " ", "J", "o", "h", "n", " ", "s", "a", "w", " ", "h", "i", "m", ".">>}

\* _find_antecedent for every pronoun of the text that correct() checks
\* (phase 8, lines 52-60): the pairs of the pronoun's position and the
\* position found (0: none), positions counted from 1.
AntecedentCall(text) ==
    LET Found(doc) ==
            {<<p, _find_antecedent(p, doc)>> :
                p \in {q \in 1..Len(doc) : /\ doc[q].pos = "PRON"
                                           /\ lower(doc[q].text) \in CheckedPronouns}}
    IN  /\ pc = "stage"
        /\ input_text' = text
        /\ phase' = 8
        /\ calls' = <<[arg |-> text, doc |-> nlp(text), found |-> Found(nlp(text))]>>
        /\ pc' = "antecedent_done"
        /\ UNCHANGED <<current, all_edits, output, saved>>

\* Texts given to _detect_dominant_tense.
TenseTexts ==
    Corpus \cup {<<"H", "e", " ", "w", "e", "n", "t", " ", "n", "o", "w", ".">>, <<"S", "h", "e", " ", "w", "i", "l", "l", " ", "g", "o", " ", "n", "o", "w", ".">>, <<"T", "h", "e", " ", "c", "a", "t", ".">>,
                    <<"Y", "e", "s", "t", "e", "r", "d", "a", "y", " ", "h", "e", " ", "w", "e", "n", "t", ".">>, <<"S", "h", "e", " ", "s", "l", "e", "e", "p", "s", " ", "N", "o", "w", ".">>, <<"H", "e", " ", "w", "i", "l", "l", " ", "g", "o", " ", "T", "o", "m", "o", "r", "r", "o", "w", ".">>,
                    <<"H", "e", " ", "s", "l", "e", "e", "p", "s", " ", "t", "o", "d", "a", "y", ".">>, <<"Y", "e", "s", "t", "e", "r", "d", "a", "y", " ", "s", "h", "e", " ", "w", "i", "l", "l", " ", "g", "o", " ", "s", "o", "o", "n", ".">>}

\* What one call of _detect_dominant_tense(text) leaves behind: the scores
\* and the tense returned.
TenseEntry(text) ==
    [arg      |-> text,
     scores   |-> TenseScores(text),
     dominant |-> _detect_dominant_tense(text)]

\* One call of _detect_dominant_tense on a preprocessed text, as correct()
\* of phase 7 makes it (lines 58-62).
DetectTenseCall(text) ==
    /\ pc = "stage"
    /\ input_text' = text
    /\ phase' = 7
    /\ calls' = <<TenseEntry(preprocess_text(text))>>
    /\ pc' = "tense_done"
    /\ UNCHANGED <<current, all_edits, output, saved>>

\* A second call, on the same text in lower case.
DetectLowerCall ==
    /\ pc = "tense_done"
    /\ calls' = Append(calls, TenseEntry(lower(calls[1].arg)))
    /\ pc' = "tense_again"
    /\ UNCHANGED <<input_text, current, all_edits, phase, output, saved>>

\* The agreement stage's correct(text) entered up to its while loop (phase
\* 6, lines 63-91), the checker returning its input: current is the text
\* the loop works on, all_edits its issues, and calls gets one entry for
\* every token the loop looks at.
ScanStart(text) ==
    /\ pc = "stage"
    /\ strip(preprocess_text(text)) # <<>>
    /\ input_text' = text
    /\ phase' = 6
    /\ current' = strip(preprocess_text(text))
    /\ all_edits' = <<>>
    /\ calls' = <<>>
    /\ pc' = "scan"
    /\ UNCHANGED <<output, saved>>

ScanStep_never_left ==
    LET Position ==
            IF calls = <<>> \/ calls[Len(calls)].replaced THEN 1
            ELSE calls[Len(calls)].i + 1
        Replace(doc, i, target) ==
            /\ current' = Join([k \in 1..Len(doc) |->
                                  IF k = i THEN target \o doc[i].ws ELSE text_with_ws(doc[k])])
            /\ all_edits' = Append(all_edits,
                                   [orig |-> doc[i].text, repl |-> target, phase |-> 6,
                                    source |-> "spaCy-rule",
                                    subject |-> doc[Min(SubjectChildren(doc, i))].text,
                                    confidence |-> 970])
            /\ calls' = Append(calls, [i |-> i, replaced |-> TRUE])
            /\ pc' = "scan"
        Look(doc, i, target) ==
            IF target = IndexError
              THEN pc' = "scan_raised" /\ UNCHANGED <<current, all_edits, calls>>
            ELSE IF lower(target) # lower(doc[i].text) THEN Replace(doc, i, target)
            ELSE /\ calls' = Append(calls, [i |-> i, replaced |-> FALSE])
                 /\ UNCHANGED <<pc, current, all_edits>>
        Iteration(doc, i) ==
            IF i > Len(doc)
              THEN calls' = <<>> /\ UNCHANGED <<pc, current, all_edits>>
            ELSE Look(doc, i, TargetForm(doc, IF i > Len(doc) THEN 1 ELSE i))
    IN  /\ pc = "scan"
        /\ Iteration(nlp(current), Position)
        /\ UNCHANGED <<input_text, phase, output, saved>>

\* One iteration of the while loop (lines 93-167) at the position after the
\* last token looked at, or at the first one after a replacement: the loop
\* is left when the position is past the end, a verb whose required form
\* differs is replaced and the text annotated again, any other token is
\* passed over.
ScanStep ==
    LET Position ==
            IF calls = <<>> \/ calls[Len(calls)].replaced THEN 1
            ELSE calls[Len(calls)].i + 1
        Replace(doc, i, target) ==
            /\ current' = Join([k \in 1..Len(doc) |->
                                  IF k = i THEN target \o doc[i].ws ELSE text_with_ws(doc[k])])
            /\ all_edits' = Append(all_edits,
                                   [orig |-> doc[i].text, repl |-> target, phase |-> 6,
                                    source |-> "spaCy-rule",
                                    subject |-> doc[Min(SubjectChildren(doc, i))].text,
                                    confidence |-> 970])
            /\ calls' = Append(calls, [i |-> i, replaced |-> TRUE])
            /\ pc' = "scan"
        Look(doc, i, target) ==
            IF target = IndexError
              THEN pc' = "scan_raised" /\ UNCHANGED <<current, all_edits, calls>>
            ELSE IF lower(target) # lower(doc[i].text) THEN Replace(doc, i, target)
            ELSE /\ calls' = Append(calls, [i |-> i, replaced |-> FALSE])
                 /\ UNCHANGED <<pc, current, all_edits>>
        Iteration(doc, i) ==
            IF i > Len(doc)
              THEN pc' = "scan_done" /\ UNCHANGED <<current, all_edits, calls>>
            ELSE Look(doc, i, TargetForm(doc, IF i > Len(doc) THEN 1 ELSE i))
    IN  /\ pc = "scan"
        /\ Iteration(nlp(current), Position)
        /\ UNCHANGED <<input_text, phase, output, saved>>

\* An iteration in which the annotator, an external collaborator called at
\* every re-annotation (line 162), raises: nothing in correct() catches it.
ScanRaises ==
    /\ pc = "scan"
    /\ pc' = "scan_raised"
    /\ UNCHANGED <<input_text, current, all_edits, phase, output, saved, calls>>

StageNext ==
    \/ \E i \in FirstPhase..LastPhase, text \in StageTexts,
          gf \in GfModes, lt \in CheckerOutcomes : StageCall(i, text, gf, lt)
    \/ StageRepeat
    \/ \E text \in StageTexts : SubjectNumberCall(text)
    \/ \E prev \in PreviousSentences, curr \in CurrentSentences : ConnectorCall(prev, curr)
    \/ \E text \in AntecedentTexts : AntecedentCall(text)
    \/ \E text \in TenseTexts : DetectTenseCall(text)
    \/ DetectLowerCall
    \/ \E text \in StageTexts : ScanStart(text)
    \/ ScanRaises
    \/ ScanStep

StageSpec == StageInit /\ [][StageNext]_vars

\* correct() is sequential code: once the while loop is entered, its next
\* iteration is made, whether it ends well or in an exception.
FairStageSpec == StageSpec /\ WF_vars(ScanRaises \/ ScanStep)


(***************************************************************************)
(* Properties of GrammarPipeline.run and of the stages' correct()          *)
(***************************************************************************)
\* The text consists of whitespace only (or is empty).
AllWhitespace(t) == \A k \in 1..Len(t) : t[k] \in Whitespace

\* s is t without its leading and trailing whitespace.
IsStrippedOf(s, t) ==
    \E l \in 0..Len(t) :
        /\ l + Len(s) <= Len(t)
        /\ SubSeq(t, l + 1, l + Len(s)) = s
        /\ \A k \in 1..l : t[k] \in Whitespace
        /\ \A k \in (l + Len(s) + 1)..Len(t) : t[k] \in Whitespace
        /\ s # <<>> => (s[1] \notin Whitespace /\ s[Len(s)] \notin Whitespace)

\* A call of run() on a text that is not blank has returned.
RunReturned == pc = "returned" /\ ~AllWhitespace(input_text)

\* The issues the completed calls of cs returned, in call order and in each
\* call's own order, each with the phase whose call returned it.
RECURSIVE Produced(_)
Produced(cs) ==
    IF cs = <<>> THEN <<>>
    ELSE LET c == Head(cs) IN
         (IF c.raised THEN <<>>
          ELSE [k \in 1..Len(c.issues) |-> [phase |-> c.phase, issue |-> c.issues[k]]])
         \o Produced(Tail(cs))

\* The text handed over after the first k - 1 calls: the text returned by the
\* last of them that completed; 0 stands for "none completed".
LastCompleted(k) ==
    LET done == {j \in 1..(k - 1) : ~calls[j].raised}
    IN  IF done = {} THEN 0 ELSE Max(done)

\* C1: failure isolation.  For every stage whose correct() raised, the next
\* stage is handed exactly the text the failed stage was handed, no edit of
\* the failed stage is in the edit list, and when run() returns all five
\* stages have been invoked, the later ones included.
C1_FailureIsolation ==
    /\ \A k \in 1..Len(calls) :
          calls[k].raised =>
             /\ k < Len(calls) => calls[k + 1].arg = calls[k].arg
             /\ \A j \in 1..Len(all_edits) : all_edits[j].phase # calls[k].phase
             /\ RunReturned =>
                   \A j \in 1..Len(output.edits) : output.edits[j].phase # calls[k].phase
    /\ RunReturned => {calls[k].phase : k \in 1..Len(calls)} = FirstPhase..LastPhase

\* C1 witness: a stage raised after an earlier stage had changed the text, a
\* later stage still ran and produced an edit, and run() returned.
C1_Witness ==
    /\ RunReturned
    /\ \E j, k, m \in 1..Len(calls) :
          /\ j < k /\ k < m
          /\ ~calls[j].raised /\ calls[j].text # calls[j].arg
          /\ calls[k].raised
          /\ ~calls[m].raised /\ calls[m].issues # <<>>

\* C2: run() never raises past its boundary and every call that entered the
\* loop returns a trace, whichever stages raise and whether or not the JSON
\* file could be written.
C2_AlwaysReturns ==
    /\ [](pc # "raised")
    /\ (pc = "loop") ~> (pc = "returned" /\ "corrected_text" \in DOMAIN output
                                         /\ "edits" \in DOMAIN output)

\* C2 witness: all five stages raised, the JSON file could not be written,
\* and run() returned a trace.
C2_Witness ==
    /\ RunReturned
    /\ Len(calls) = Len(phases)
    /\ \A k \in 1..Len(calls) : calls[k].raised
    /\ saved = "failed"
    /\ "corrected_text" \in DOMAIN output

\* No stage of the run succeeded in changing the text: each one raised or
\* returned its input unchanged with no issues.
NoStageChangedText ==
    /\ Len(calls) = Len(phases)
    /\ \A k \in 1..Len(calls) :
          calls[k].raised \/ (calls[k].text = calls[k].arg /\ calls[k].issues = <<>>)

\* C3 as stated: in the worst case the returned corrected_text equals the
\* original input text exactly, with an empty edit list and total_fixed = 0.
C3_WorstCaseExactInput ==
    (RunReturned /\ NoStageChangedText) =>
        /\ output.corrected_text = input_text
        /\ output.edits = <<>>
        /\ output.total_fixed = 0

\* C3 amended: in the worst case the returned corrected_text is the input
\* without its leading and trailing whitespace, with an empty edit list and
\* total_fixed = 0.
C3_WorstCaseStrippedInput ==
    (RunReturned /\ NoStageChangedText) =>
        /\ IsStrippedOf(output.corrected_text, input_text)
        /\ output.edits = <<>>
        /\ output.total_fixed = 0

\* C3 witness: a worst-case run on an input with surrounding whitespace, in
\* which some stage raised and some stage returned its input unchanged.
C3_Witness ==
    /\ RunReturned /\ NoStageChangedText
    /\ input_text[1] \in Whitespace
    /\ \E k \in 1..Len(calls) : calls[k].raised
    /\ \E k \in 1..Len(calls) : ~calls[k].raised

\* C4: on empty or whitespace-only input run() calls no stage and returns
\* corrected_text "", total_fixed 0, confidence_avg 1.0 and no edits.
C4_BlankShortCircuit ==
    (pc \in {"loop", "returned", "raised"} /\ AllWhitespace(input_text)) =>
        /\ pc = "returned"
        /\ calls = <<>>
        /\ output.corrected_text = <<>>
        /\ output.total_fixed = 0
        /\ output.confidence_avg = 1000
        /\ output.edits = <<>>

\* C4 witness: run() has returned on an input of whitespace only.
C4_Witness ==
    /\ pc = "returned"
    /\ input_text # <<>>
    /\ AllWhitespace(input_text)
    /\ calls = <<>>

\* C5: the stages are invoked one after the other in the order 6, 7, 8, 9,
\* 10 (SVA, Tense, Pronoun, Conjunctions, Articles), each exactly once by
\* the time run() returns; each is handed the corrected_text of the most
\* recent stage before it that completed, or the stripped input when none
\* did; and the final corrected_text is the last such text.
C5_LinearOrder ==
    /\ Len(calls) <= Len(phases)
    /\ \A k \in 1..Len(calls) :
          /\ calls[k].phase = FirstPhase + k - 1
          /\ IF LastCompleted(k) = 0
               THEN IsStrippedOf(calls[k].arg, input_text)
               ELSE calls[k].arg = calls[LastCompleted(k)].text
    /\ pc = "loop" => phase = FirstPhase + Len(calls)
    /\ RunReturned =>
          /\ Len(calls) = Len(phases)
          /\ [k \in 1..Len(calls) |-> phases[calls[k].phase - FirstPhase + 1]] = phases
          /\ IF LastCompleted(Len(calls) + 1) = 0
               THEN IsStrippedOf(output.corrected_text, input_text)
               ELSE output.corrected_text = calls[LastCompleted(Len(calls) + 1)].text

\* C5 witness: a returned run in which two stages changed the text and a
\* stage between them raised.
C5_Witness ==
    /\ RunReturned
    /\ \E j, k, m \in 1..Len(calls) :
          /\ j < k /\ k < m
          /\ ~calls[j].raised /\ calls[j].text # calls[j].arg
          /\ calls[k].raised
          /\ ~calls[m].raised /\ calls[m].text # calls[m].arg

\* C6: the returned edit list is the concatenation, in stage order and in
\* each stage's own order, of the issues_found of the stages that completed
\* (every field of every issue as the stage returned it), and total_fixed
\* is the length of that list.
C6_TraceAggregation ==
    RunReturned =>
        LET made == Produced(calls) IN
        /\ Len(output.edits) = Len(made)
        /\ \A j \in 1..Len(made) :
              \A f \in DOMAIN made[j].issue :
                  f \in DOMAIN output.edits[j] /\ output.edits[j][f] = made[j].issue[f]
        /\ output.total_fixed = Len(made)

\* C6 witness: a returned run in which two different stages returned issues,
\* one of them more than one, and another stage raised.
C6_Witness ==
    /\ RunReturned
    /\ \E j, k, m \in 1..Len(calls) :
          /\ j # k /\ j # m /\ k # m
          /\ Len(calls[j].issues) >= 2
          /\ Len(calls[k].issues) >= 1
          /\ calls[m].raised
    /\ output.total_fixed >= 3

\* C7: every edit of the returned trace has a phase, a phase_name and a
\* confidence; a field the stage set keeps its value, an absent one is
\* filled with the stage's index, the stage's name and 0.95; and the phase
\* of every edit is the index of the stage that produced it.
C7_EditTagging ==
    RunReturned =>
        LET made == Produced(calls) IN
        /\ Len(output.edits) = Len(made)
        /\ \A j \in 1..Len(made) :
              LET e == output.edits[j]
                  own == made[j].issue
                  i == made[j].phase
              IN  /\ DOMAIN e = DOMAIN own \cup {"phase", "phase_name", "confidence"}
                  /\ \A f \in DOMAIN own \cap {"phase", "phase_name", "confidence"} :
                        e[f] = own[f]
                  /\ "phase" \notin DOMAIN own => e.phase = i
                  /\ "phase_name" \notin DOMAIN own => e.phase_name = phases[i - FirstPhase + 1]
                  /\ "confidence" \notin DOMAIN own => e.confidence = 950
                  /\ e.phase = i

\* C7 witness: a returned trace with an edit whose stage set a confidence
\* other than 0.95 but no phase, and an edit whose stage set a phase but no
\* confidence.
C7_Witness ==
    /\ RunReturned
    /\ \E j \in 1..Len(Produced(calls)) :
          LET own == Produced(calls)[j].issue IN
          /\ "phase" \notin DOMAIN own
          /\ "confidence" \in DOMAIN own /\ own.confidence # 950
    /\ \E j \in 1..Len(Produced(calls)) :
          LET own == Produced(calls)[j].issue IN
          /\ "phase" \in DOMAIN own
          /\ "confidence" \notin DOMAIN own

\* The sum of the confidences of the issues the completed stages returned,
\* an issue without one counting 0.95 (in thousandths).
RECURSIVE OwnConfidenceSum(_)
OwnConfidenceSum(made) ==
    IF made = <<>> THEN 0
    ELSE (IF "confidence" \in DOMAIN Head(made).issue
            THEN Head(made).issue.confidence ELSE 950)
         + OwnConfidenceSum(Tail(made))

\* C8 as stated: confidence_avg equals the mean of the edits' confidences
\* (0.95 for an edit without one), and is 1.0 without edits.
C8_ExactMean ==
    RunReturned =>
        LET made == Produced(calls) IN
        IF made = <<>> THEN output.confidence_avg = 1000
        ELSE output.confidence_avg * Len(made) = OwnConfidenceSum(made)

\* C8 amended: confidence_avg is the mean of the edits' confidences (0.95
\* for an edit without one) rounded to three decimals, and is 1.0 without
\* edits; the confidence fields of the stage results do not enter it.
C8_RoundedMean ==
    RunReturned =>
        LET made == Produced(calls)
            diff == output.confidence_avg * Len(made) - OwnConfidenceSum(made)
        IN  IF made = <<>> THEN output.confidence_avg = 1000
            ELSE 2 * diff <= Len(made) /\ -2 * diff <= Len(made)

\* C8 witness: a returned trace whose mean is not a whole number of
\* thousandths, with an edit that has no confidence of its own.
C8_Witness ==
    /\ RunReturned
    /\ LET made == Produced(calls) IN
       /\ made # <<>>
       /\ OwnConfidenceSum(made) % Len(made) # 0
       /\ \E j \in 1..Len(made) : "confidence" \notin DOMAIN made[j].issue

\* C9: round trip.  When the input satisfies the rules of all five stages
\* (no stage raises and each returns the text it was handed, the input
\* itself), run() returns corrected_text equal to the input, no edits and
\* confidence_avg 1.0.
C9_RoundTrip ==
    (/\ RunReturned
     /\ Len(calls) = Len(phases)
     /\ \A k \in 1..Len(calls) :
           ~calls[k].raised /\ calls[k].arg = input_text /\ calls[k].text = input_text) =>
        /\ output.corrected_text = input_text
        /\ output.edits = <<>>
        /\ output.total_fixed = 0
        /\ output.confidence_avg = 1000

\* C10: uniform stage contract.  A call of correct() of any of the five
\* stages on any text, blank ones included, that returns, returns a result
\* with the fields corrected_text, issues_found and confidence.
C10_UniformContract ==
    pc \in {"stage_done", "stage_again"} =>
        \A k \in 1..Len(calls) :
            ~calls[k].raised =>
                {"corrected_text", "issues_found", "confidence"} \subseteq calls[k].fields

\* The calls of stage i recorded by the direct stage calls.
StageCallsOf(i) ==
    IF pc \in {"stage_done", "stage_again"}
    THEN {k \in 1..Len(calls) : calls[k].phase = i}
    ELSE {}

\* C11: skip below two sentences.  A call of ConjunctionsCorrector.correct
\* on a text of fewer than two sentences (a blank text has none) returns the
\* text exactly as given, no issues and confidence 1.0.
C11_SkipBelowTwoSentences ==
    \A k \in StageCallsOf(9) :
        Len(Sentences(nlp(calls[k].arg))) < 2 =>
            /\ ~calls[k].raised
            /\ calls[k].text = calls[k].arg
            /\ calls[k].issues = <<>>
            /\ "confidence" \in calls[k].fields
            /\ calls[k].confidence = 1000

\* Every verb of the text that the agreement scan looks at already has the
\* form its subject requires (compared without regard to case, as the scan
\* compares).
AllVerbsAgree(text) ==
    LET Agree(doc) ==
            \A k \in 1..Len(doc) :
                /\ TargetForm(doc, k) # IndexError
                /\ lower(TargetForm(doc, k)) = lower(doc[k].text)
    IN  Agree(nlp(strip(preprocess_text(text))))

\* The text without its whitespace characters.
NoSpaces(text) == SelectSeq(text, LAMBDA c : ~IsSpace(c))

\* A call of the agreement stage that found nothing to do.
NothingToDo(entry) ==
    /\ ~entry.raised
    /\ entry.issues = <<>>
    /\ entry.confidence = 1000

\* C12 as stated: with the checker returning its input, the agreement stage
\* applied to a text whose verbs all agree returns exactly that text, with
\* no issues and confidence 1.0.
C12_FixedPointExactText ==
    \A k \in StageCallsOf(6) :
        (calls[k].lt = "same" /\ AllVerbsAgree(calls[k].arg)) =>
            NothingToDo(calls[k]) /\ calls[k].text = calls[k].arg

\* C12, amended: SVA fixed point.  With the checker returning its input, the
\* agreement stage applied to a text whose verbs all agree returns that text
\* changed in its whitespace only, with no issues and confidence 1.0; applied
\* to the output of a previous run of the stage it returns the text
\* unchanged, with no issues and confidence 1.0.
C12_FixedPoint ==
    /\ \A k \in StageCallsOf(6) :
        (calls[k].lt = "same" /\ AllVerbsAgree(calls[k].arg)) =>
            NothingToDo(calls[k]) /\ NoSpaces(calls[k].text) = NoSpaces(calls[k].arg)
    /\ (pc = "stage_again" /\ phase = 6 /\ calls[2].lt = "same") =>
            NothingToDo(calls[2]) /\ calls[2].text = calls[2].arg

\* The stage ran a second time on a text its first run had to correct.
C12_Witness ==
    /\ pc = "stage_again"
    /\ phase = 6
    /\ calls[1].lt = "same"
    /\ calls[2].lt = "same"
    /\ Len(calls[1].issues) = 2
    /\ calls[2].text = calls[2].arg
    /\ calls[2].issues = <<>>

\* C13: the subject-number policy is priority-ordered.  A singular-forcing
\* quantifier in the subtree text gives singular whatever else is there;
\* without one a plural-forcing quantifier gives plural; without either, a
\* subject word of the plural set gives plural; else one of the singular,
\* collective or academic sets gives singular; else a plural noun tag gives
\* plural; else the number is singular.
C13_NumberPolicy ==
    pc = "number_done" =>
        \A d \in calls[1].numbers :
            LET sq  == \E q \in QUANTIFIER_SINGULAR : Contains(d.subtree, q)
                pq  == \E q \in QUANTIFIER_PLURAL : Contains(d.subtree, q)
                pl  == d.subject \in PLURAL_SUBJ
                sg  == d.subject \in SINGULAR_SUBJ \cup COLLECTIVE_SINGULAR \cup ACADEMIC_SINGULAR
                nns == d.tag \in {"NNS", "NNPS"}
            IN  /\ sq => d.number = "singular"
                /\ (~sq /\ pq) => d.number = "plural"
                /\ (~sq /\ ~pq /\ pl) => d.number = "plural"
                /\ (~sq /\ ~pq /\ ~pl /\ sg) => d.number = "singular"
                /\ (~sq /\ ~pq /\ ~pl /\ ~sg /\ nns) => d.number = "plural"
                /\ (~sq /\ ~pq /\ ~pl /\ ~sg /\ ~nns) => d.number = "singular"

\* A subject whose subtree holds a singular-forcing and a plural-forcing
\* quantifier was decided singular.
C13_Witness ==
    /\ pc = "number_done"
    /\ \E d \in calls[1].numbers :
        /\ \E q \in QUANTIFIER_SINGULAR : Contains(d.subtree, q)
        /\ \E q \in QUANTIFIER_PLURAL : Contains(d.subtree, q)
        /\ d.number = "singular"

\* The edits of the rule engine of the agreement stage in its recorded calls.
RuleEdits ==
    {e \in UNION {{calls[k].issues[n] : n \in 1..Len(calls[k].issues)} : k \in StageCallsOf(6)} :
        "source" \in DOMAIN e}

\* C14: a verb replaced by the agreement stage keeps its capitalization
\* pattern: an all-capital token gets an all-capital form, another token
\* with a capital first letter a form with a capital first letter and the
\* rest in lower case, and a lower-case token a lower-case form.
C14_CasePreserved ==
    \A e \in RuleEdits :
        /\ isupper(e.orig) => isupper(e.repl)
        /\ (Head(e.orig) \in UpperSet /\ ~isupper(e.orig)) => e.repl = capitalize(e.repl)
        /\ e.orig = lower(e.orig) => e.repl = lower(e.repl)

\* The words of the an-before-h list that follow an article a/an in the text.
ExceptionWordsAfterArticle(text) ==
    LET After(doc) ==
            {doc[NextWord(doc, i)].text :
                i \in {a \in 1..Len(doc) :
                          /\ lower(doc[a].text) \in {<<"a">>, <<"a", "n">>}
                          /\ NextWord(doc, a) # 0
                          /\ lower(doc[NextWord(doc, a)].text) \in AN_BEFORE_H}}
    IN  After(nlp(text))

\* C15: an-before-h exceptions.  For an article a/an followed by a word of
\* the an-before-h list, the text returned by the article stage contains
\* "an" followed by that word, spelled as in the input.
C15_AnBeforeH ==
    \A k \in StageCallsOf(10) :
        ~calls[k].raised =>
            \A word \in ExceptionWordsAfterArticle(calls[k].arg) :
                \E an \in {<<"a", "n">>, <<"A", "n">>} :
                    Contains(calls[k].text, an \o <<" ">> \o word)

\* The article the cascade of C16 gives for a word: the first rule that
\* matches decides.
ArticleByCascade(word) ==
    LET w     == lower(word)
        rules == << <<w \in AN_BEFORE_H, <<"a", "n">>>>,
                    <<w \in A_BEFORE_U, <<"a">>>>,
                    <<Len(word) >= 2 /\ isupper(word) /\ Head(word) \in AcronymAnLetters, <<"a", "n">>>>,
                    <<Len(word) >= 2 /\ isupper(word), <<"a">>>>,
                    <<Head(w) \in {"a", "e", "i", "o", "u"}, <<"a", "n">>>>,
                    <<\E h \in {<<"h", "o", "u", "r">>, <<"h", "o", "n", "e", "s", "t">>, <<"h", "o", "n", "o", "u", "r">>, <<"h", "o", "n", "o", "r">>, <<"h", "e", "i", "r">>} : startswith(w, h), <<"a", "n">>>>,
                    <<TRUE, <<"a">>>> >>
    IN  rules[Min({r \in 1..Len(rules) : rules[r][1]})][2]

\* The a_an_fixed edits the cascade requires for a text, in token order: one
\* for each a/an in front of a noun or adjective outside the zero-article
\* and uncountable sets whose article by the cascade is not the one written.
EditsByCascade(text) ==
    LET Chosen(doc) ==
            SelectSeq([i \in 1..Len(doc) |->
                         IF /\ lower(doc[i].text) \in {<<"a">>, <<"a", "n">>}
                            /\ NextWord(doc, i) # 0
                            /\ doc[NextWord(doc, i)].pos \in {"NOUN", "ADJ"}
                            /\ lower(doc[NextWord(doc, i)].lemma) \notin ZERO_ARTICLE \cup UNCOUNTABLES
                         THEN [orig |-> doc[i].text,
                               repl |-> ArticleByCascade(doc[NextWord(doc, i)].text)]
                         ELSE [orig |-> <<>>, repl |-> <<>>]],
                      LAMBDA e : lower(e.orig) # e.repl)
    IN  Chosen(nlp(preprocess_text(text)))

\* The a_an_fixed edits of a recorded call, as pairs of the article written
\* and the article put.
FixedArticles(entry) ==
    LET fixed == SelectSeq(entry.issues, LAMBDA e : e.type = "a_an_fixed")
    IN  [n \in 1..Len(fixed) |-> [orig |-> fixed[n].orig, repl |-> fixed[n].repl]]

\* C16: the article for a following word is chosen by the cascade, first
\* match wins, and the article stage records an a_an_fixed edit, to the
\* article of the cascade, exactly for the articles that differ from it.
C16_ArticleCascade ==
    \A k \in StageCallsOf(10) :
        (~calls[k].raised /\ calls[k].lt # "fix") =>
            FixedArticles(calls[k]) = EditsByCascade(calls[k].arg)

\* The article stage corrected the article in front of an acronym.
C16_Witness ==
    /\ pc = "stage_done"
    /\ phase = 10
    /\ calls[1].arg = <<"S", "h", "e", " ", "h", "a", "s", " ", "a", " ", "M", "B", "A", ".">>
    /\ FixedArticles(calls[1]) = <<[orig |-> <<"a">>, repl |-> <<"a", "n">>]>>

\* The determiners and possessives of C17.
Determiners ==
    {<<"a">>, <<"a", "n">>, <<"t", "h", "e">>, <<"t", "h", "i", "s">>, <<"t", "h", "a", "t">>, <<"m", "y">>, <<"y", "o", "u", "r">>, <<"i", "t", "s">>, <<"o", "u", "r">>, <<"h", "i", "s">>, <<"h", "e", "r">>, <<"t", "h", "e", "i", "r">>}

\* The inherently-unique nouns of a text that no determiner or possessive
\* directly precedes, in lower case and in token order.
BareUniqueNouns(text) ==
    LET Bare(doc) ==
            SelectSeq([i \in 1..Len(doc) |->
                         IF /\ lower(doc[i].text) \in THE_NOUNS
                            /\ (i = 1 \/ lower(doc[i - 1].text) \notin Determiners)
                         THEN lower(doc[i].text) ELSE <<>>],
                      LAMBDA n : n # <<>>)
    IN  Bare(nlp(preprocess_text(text)))

\* C17: the article stage puts "the" in front of an inherently-unique noun
\* only when no determiner or possessive directly precedes it: the
\* insert_the_unique edits of a call are those of the unique nouns of the
\* text that have none in front.
C17_NoDoubleDeterminer ==
    \A k \in StageCallsOf(10) :
        (~calls[k].raised /\ calls[k].lt # "fix") =>
            LET inserted == SelectSeq(calls[k].issues, LAMBDA e : e.type = "insert_the_unique")
            IN  [n \in 1..Len(inserted) |-> inserted[n].noun] = BareUniqueNouns(calls[k].arg)

\* The connector of the cascade of C18 for the lower-cased sentences p and
\* c, the first rule that matches deciding; no_more tells whether the
\* current sentence already carries a sequence cue, terminal whether the
\* previous sentence ends with terminal punctuation.
ConnectorByCascade(p, c, no_more, terminal) ==
    LET rules == << <<ContainsAny(c, {<<"b", "e", "c", "a", "u", "s", "e">>, <<"s", "i", "n", "c", "e">>, <<"t", "h", "e", "r", "e", "f", "o", "r", "e">>, <<"h", "e", "n", "c", "e">>}), <<>>>>,
                    <<_is_contrast(p, c), <<"b", "u", "t">>>>,
                    <<ContainsAny(p, {<<"b", "e", "c", "a", "u", "s", "e">>, <<"s", "i", "n", "c", "e">>, <<"d", "u", "e", " ", "t", "o">>, <<"a", "s", " ", "a", " ", "r", "e", "s", "u", "l", "t">>}), <<"s", "o">>>>,
                    <<ContainsAny(p, {<<"r", "e", "a", "s", "o", "n">>, <<"c", "a", "u", "s", "e">>}), <<"t", "h", "e", "r", "e", "f", "o", "r", "e">>>>,
                    <<ContainsAny(c, {<<"r", "e", "s", "u", "l", "t">>, <<"t", "h", "e", "r", "e", "f", "o", "r", "e">>}), <<"t", "h", "e", "r", "e", "f", "o", "r", "e">>>>,
                    <<ContainsAny(p, {<<"f", "i", "r", "s", "t">>, <<"a", "f", "t", "e", "r">>, <<"b", "e", "f", "o", "r", "e">>, <<"l", "a", "t", "e", "r">>, <<"n", "e", "x", "t">>}), <<"t", "h", "e", "n">>>>,
                    <<no_more, <<>>>>,
                    <<terminal, <<"a", "n", "d">>>>,
                    <<TRUE, <<>>>> >>
    IN  rules[Min({r \in 1..Len(rules) : rules[r][1]})][2]

\* The last character of the previous sentence is a terminal mark.
TerminalEnd(s) == s # <<>> /\ s[Len(s)] \in {".", "!", "?"}

Connectors == {<<"b", "u", "t">>, <<"s", "o">>, <<"t", "h", "e", "r", "e", "f", "o", "r", "e">>, <<"t", "h", "e", "n">>, <<"a", "n", "d">>}

\* C19: the conjunction stage never puts a connector in front of a sentence
\* that already begins with that connector word, in whatever letter case:
\* the returned text never has a connector, a comma and the same connector
\* again where the text given did not.
C19_NoDoubleConnector ==
    \A k \in StageCallsOf(9) :
        ~calls[k].raised =>
            \A conn \in Connectors :
                Contains(lower(calls[k].text), conn \o <<",", " ">> \o conn \o <<" ">>)
                    => Contains(lower(calls[k].arg), conn \o <<",", " ">> \o conn \o <<" ">>)

\* The antecedent of C20 for the pronoun at position p: the nearest of the
\* (at most) back tokens before it that is a noun or proper noun and neither
\* a prepositional object nor a possessive; 0 when there is none.
NearestNoun(doc, p, back) ==
    LET cand == {k \in 1..(p - 1) : /\ p - k <= back
                                    /\ doc[k].pos \in {"NOUN", "PROPN"}
                                    /\ doc[k].dep \notin {"pobj", "poss"}}
    IN  IF cand = {} THEN 0 ELSE Max(cand)

\* C20: the antecedent search looks backward up to 20 tokens: the
\* antecedent found for a pronoun is the nearest qualifying noun among the
\* 20 tokens before it, so that one exactly 20 tokens before is found and
\* one 21 tokens before is not.
C20_TwentyTokensBack ==
    pc = "antecedent_done" =>
        \A f \in calls[1].found : f[2] = NearestNoun(calls[1].doc, f[1], 20)

\* The nominative form of an objective-form pronoun in lower case.
Nominative(pron) ==
    IF pron = <<"h", "i", "m">> THEN <<"h", "e">>
    ELSE IF pron = <<"h", "e", "r">> THEN <<"s", "h", "e">>
    ELSE <<"t", "h", "e", "y">>

\* The positions of the objective-form pronouns of doc that stand in subject
\* position: no verb directly before, no noun directly after.
ObjectiveAsSubject(doc) ==
    {p \in 1..Len(doc) :
        /\ doc[p].pos = "PRON"
        /\ lower(doc[p].text) \in {<<"h", "i", "m">>, <<"h", "e", "r">>, <<"t", "h", "e", "m">>}
        /\ ~(p > 1 /\ doc[p - 1].pos = "VERB")
        /\ ~(p < Len(doc) /\ doc[p + 1].pos = "NOUN")}

\* C21: an objective-form pronoun in subject position is rewritten by the
\* pronoun stage to its nominative form, capitalization preserved: the call
\* records an edit at the pronoun's span that puts the nominative form.
C21_ObjectiveToNominative ==
    \A k \in StageCallsOf(8) :
        ~calls[k].raised =>
            LET Rewritten(doc) ==
                    \A p \in ObjectiveAsSubject(doc) :
                        \E n \in 1..Len(calls[k].issues) :
                            /\ calls[k].issues[n].span[1] = doc[p].idx
                            /\ lower(calls[k].issues[n].repl) = Nominative(lower(doc[p].text))
                            /\ (Head(doc[p].text) \in UpperSet)
                                  = (Head(calls[k].issues[n].repl) \in UpperSet)
            IN  Rewritten(nlp(calls[k].arg))

\* The recorded calls of the dominant-tense detection.
TenseCalls ==
    IF pc \in {"tense_done", "tense_again"} THEN 1..Len(calls) ELSE {}

\* C22: the dominant tense is the tense of the highest score, ties going to
\* the earlier of past, present, future; it is always one of the three, and
\* past when the three scores of a non-blank text are zero.
C22_DominantTense ==
    \A k \in TenseCalls :
        LET s == calls[k].scores
            d == calls[k].dominant
        IN  /\ d \in {"past", "present", "future"}
            /\ s[d] >= s.past /\ s[d] >= s.present /\ s[d] >= s.future
            /\ d = "present" => s.past < s.present
            /\ d = "future" => s.past < s.future /\ s.present < s.future
            /\ (s.past = 0 /\ s.present = 0 /\ s.future = 0) => d = "past"

\* The detection ran on a non-blank text without any cue.
C22_Witness ==
    /\ pc = "tense_done"
    /\ strip(calls[1].arg) # <<>>
    /\ calls[1].scores = [past |-> 0, present |-> 0, future |-> 0]
    /\ calls[1].dominant = "past"

\* C27: cue words count without regard to letter case: a text and the same
\* text in lower case get the same three scores and the same dominant
\* tense.
C27_CaseInsensitiveCues ==
    pc = "tense_again" =>
        /\ calls[1].scores = calls[2].scores
        /\ calls[1].dominant = calls[2].dominant

\* C23: tense stage stability.  Without deep recheck and with the checker
\* returning its input, the tense stage applied to its own output returns
\* it unchanged, and so does the stage applied to a sentence with was/were
\* and an -ing form.
C23_TenseStable ==
    /\ (pc = "stage_again" /\ phase = 7 /\ calls[2].gf = "none" /\ calls[2].lt = "same")
            => calls[2].text = calls[2].arg
    /\ \A k \in StageCallsOf(7) :
        (calls[k].gf = "none" /\ calls[k].lt = "same" /\ calls[k].arg = <<"S", "h", "e", " ", "w", "a", "s", " ", "s", "l", "e", "e", "p", "i", "n", "g", ".">>)
            => calls[k].text = calls[k].arg

\* The sets of a family are pairwise disjoint.
PairwiseDisjoint(family) ==
    \A a, b \in 1..Len(family) : a # b => family[a] \cap family[b] = {}

\* C24: within a stage no word belongs to two contradictory categories:
\* not to a singular-forcing and a plural-forcing set of the agreement
\* stage, not to the zero-article and the the-requiring set or to the
\* a-before-u and the an-before-h list of the article stage, not to two
\* gender/number sets of the pronoun stage.  Stated of the stage that was
\* called.
C24_DisjointKnowledgeBases ==
    pc # "stage" =>
        /\ phase = 6 =>
            /\ (SINGULAR_SUBJ \cup COLLECTIVE_SINGULAR \cup ACADEMIC_SINGULAR)
                   \cap PLURAL_SUBJ = {}
            /\ QUANTIFIER_SINGULAR \cap QUANTIFIER_PLURAL = {}
        /\ phase = 10 =>
            /\ ZERO_ARTICLE \cap THE_NOUNS = {}
            /\ A_BEFORE_U \cap AN_BEFORE_H = {}
        /\ phase = 8 =>
            PairwiseDisjoint(<<SINGULAR_MALE, SINGULAR_FEMALE, SINGULAR_NEUTER, PLURAL>>)

\* The edits of a recorded call that a checker pass or the deep recheck
\* records.
ToolEdits(entry) ==
    SelectSeq(entry.issues,
              LAMBDA e : "type" \in DOMAIN e /\ e.type \in {"LT_SVA", "LT", "GF"})

\* C25: a failure of the checker or of the deep recheck inside a stage does
\* not leave the stage.  When both tools of a call fail, the call returns,
\* records no edit of a tool, and returns the text it returns when the
\* checker gives its input back and there is no deep recheck; when only the
\* checker fails, no checker edit is recorded.
C25_ToolFailureContained ==
    \A k \in StageCallsOf(6) \cup StageCallsOf(7) \cup StageCallsOf(10) :
        /\ (calls[k].lt = "raise" \/ calls[k].gf = "raise") => ~calls[k].raised
        /\ calls[k].lt = "raise" =>
              \A n \in 1..Len(calls[k].issues) :
                  "type" \in DOMAIN calls[k].issues[n]
                      => calls[k].issues[n].type \notin {"LT_SVA", "LT"}
        /\ (calls[k].lt = "raise" /\ calls[k].gf \in {"raise", "none"}) =>
              /\ ToolEdits(calls[k]) = <<>>
              /\ calls[k].text
                    = correct(calls[k].phase, calls[k].arg, "none", "same").corrected_text

\* The tense stage returned although the deep recheck and the checker both
\* failed, on a text the checker would have changed.
C25_Witness ==
    /\ pc = "stage_done"
    /\ phase = 7
    /\ calls[1].gf = "raise"
    /\ calls[1].lt = "raise"
    /\ ~calls[1].raised
    /\ calls[1].arg = <<"t", "h", "e", " ", "d", "o", "g", "s", " ", "b", "a", "r", "k", "s">>
    /\ ToolEdits(calls[1]) = <<>>

\* The entries of the loop's trace while the loop runs or after it.
ScanTrace == IF pc \in {"scan", "scan_done", "scan_raised"} THEN calls ELSE <<>>

\* The trace of the loop is that of a scan that starts again at the first
\* token after every replacement and never replaces a token twice.
ScanInOrder ==
    /\ \A n \in 1..Len(ScanTrace) :
        ScanTrace[n].i = IF n = 1 \/ ScanTrace[n - 1].replaced THEN 1
                         ELSE ScanTrace[n - 1].i + 1
    /\ \A m, n \in 1..Len(ScanTrace) :
        (m # n /\ ScanTrace[m].replaced /\ ScanTrace[n].replaced)
            => ScanTrace[m].i # ScanTrace[n].i

C28_SingleAnnotator ==
    \A n \in 1..Len(calls) :
        ~calls[n].raised
            => AnnotatorsUsed(calls[n].phase, calls[n].arg) \subseteq {self_nlp}

\* The words of a text other than the articles a, an and the, in token
\* order and spelled as in the text.
OtherWords(text) ==
    LET Kept(doc) ==
            SelectSeq([i \in 1..Len(doc) |-> doc[i].text],
                      LAMBDA word : lower(word) \notin {<<"a">>, <<"a", "n">>, <<"t", "h", "e">>})
    IN  Kept(nlp(text))

\* C29: frame of the article stage.  When the checker left the text as it
\* was, the words of the returned text other than articles are the words of
\* the whitespace-normalized input other than articles, in the same order
\* and with the same letters.
C29_ArticleFrame ==
    \A k \in StageCallsOf(10) :
        (~calls[k].raised /\ calls[k].lt # "fix") =>
            OtherWords(calls[k].text) = OtherWords(preprocess_text(calls[k].arg))

\* C30: edits correspond to changes.  A stage call that returned its input,
\* as given or whitespace-normalized, reports no issue.
C30_EditsAreChanges ==
    \A k \in 1..Len(calls) :
        (/\ pc \in {"stage_done", "stage_again"}
         /\ ~calls[k].raised
         /\ calls[k].text \in {calls[k].arg, preprocess_text(calls[k].arg)})
            => calls[k].issues = <<>>
====
